---- MODULE Spec2Model ----
(***************************************************************************)
(* Model of the Metta parser (MettaParser.ts), the graph transformer       *)
(* (GraphTransformer.ts), the node utilities (nodeUtils.ts) and the layout *)
(* engine GraphEngineImpl (GraphVisualizer.tsx).                           *)
(*                                                                         *)
(* A JavaScript string is modelled as a sequence of one-character strings, *)
(* so that slicing, trimming, tokenising and the `a-b-c` concatenations    *)
(* that build ids are computed character by character, as the code does.   *)
(* In the parser and the transformer, node positions, colours and sizes    *)
(* are presentation attributes that no identity or structure decision of   *)
(* the code reads; they are left out there.  The layout engine computes     *)
(* with positions: its numbers are binary floating-point numbers, kept as   *)
(* fractions n / d in lowest terms, and every operation is rounded.         *)
(*                                                                         *)
(* Where the code keeps an intermediate result in a local variable that    *)
(* later statements read several times, the model binds it with Bind.      *)
(***************************************************************************)
EXTENDS Integers, Sequences, FiniteSets, TLC

\* ------------------------------------------------------------------------
\* Bounds of the model
\* ------------------------------------------------------------------------
MaxLineLen == 7     \* longest line typed character by character
MaxArgs == 3        \* most arguments of a generated flat fact
MaxRepeat == 3      \* most repetitions of one fact line in a text
MaxCounter == 3     \* cap of the transformer's hypergraphCounter
MaxTriples == 2     \* longest triple sequence handed to the transformer

\* F(e), with e evaluated once: `const v = e; ... F(v)`
Bind(e, F(_)) == CHOOSE r \in { F(v) : v \in {e} } : TRUE

\* ------------------------------------------------------------------------
\* Characters and strings
\* ------------------------------------------------------------------------
LowerLetters ==
  <<"a","b","c","d","e","f","g","h","i","j","k","l","m",
    "n","o","p","q","r","s","t","u","v","w","x","y","z">>
UpperLetters ==
  <<"A","B","C","D","E","F","G","H","I","J","K","L","M",
    "N","O","P","Q","R","S","T","U","V","W","X","Y","Z">>
Digits == <<"0","1","2","3","4","5","6","7","8","9">>

Range(s) == { s[i] : i \in 1..Len(s) }

IsLower(c) == c \in Range(LowerLetters)
IsUpper(c) == c \in Range(UpperLetters)
IsDigit(c) == c \in Range(Digits)

\* String.prototype.toLowerCase, one character
toLowerChar(c) ==
  IF IsUpper(c)
  THEN LowerLetters[CHOOSE i \in 1..26 : UpperLetters[i] = c]
  ELSE c

\* String.prototype.toLowerCase
toLowerCase(s) == [i \in 1..Len(s) |-> toLowerChar(s[i])]

\* the characters matched by \s that the model's inputs contain
IsSpace(c) == c \in {" ", "\t"}

\* String.prototype.slice(from, to) with 0-based from and exclusive to
slice(s, from, to) ==
  IF to <= from THEN <<>> ELSE SubSeq(s, from + 1, to)

RECURSIVE trimStart(_)
trimStart(s) ==
  IF s = <<>> THEN <<>>
  ELSE IF IsSpace(Head(s)) THEN trimStart(Tail(s)) ELSE s

RECURSIVE trimEnd(_)
trimEnd(s) ==
  IF s = <<>> THEN <<>>
  ELSE IF IsSpace(s[Len(s)]) THEN trimEnd(SubSeq(s, 1, Len(s) - 1)) ELSE s

\* String.prototype.trim
trim(s) == trimEnd(trimStart(s))

\* String.prototype.charAt: the empty string when out of range
charAt(s, i) == IF i >= 0 /\ i < Len(s) THEN s[i + 1] ELSE ""

\* String.prototype.split(/\s+/): the maximal runs of non-space characters,
\* with an empty part where the string starts or ends with white space;
\* the empty string splits into one empty part
RECURSIVE splitLoop(_, _, _, _)
splitLoop(s, i, parts, current) ==
  IF i > Len(s) THEN Append(parts, current)
  ELSE IF IsSpace(s[i])
       THEN IF i > 1 /\ IsSpace(s[i - 1])
            THEN splitLoop(s, i + 1, parts, current)
            ELSE splitLoop(s, i + 1, Append(parts, current), <<>>)
       ELSE splitLoop(s, i + 1, parts, Append(current, s[i]))

splitWhitespace(s) == splitLoop(s, 1, <<>>, <<>>)

\* decimal rendering of a natural number, as a template literal prints it
RECURSIVE numberToString(_)
numberToString(n) ==
  IF n < 10 THEN <<Digits[n + 1]>>
  ELSE numberToString(n \div 10) \o <<Digits[(n % 10) + 1]>>

\* `${a}-${b}`
Hyphen(a, b) == a \o <<"-">> \o b

\* ------------------------------------------------------------------------
\* nodeUtils.ts
\* ------------------------------------------------------------------------
\* .replace(/[^a-z0-9]/g, '-')
replaceNonAlnum(s) ==
  [i \in 1..Len(s) |-> IF IsLower(s[i]) \/ IsDigit(s[i]) THEN s[i] ELSE "-"]

\* .replace(/-+/g, '-')
RECURSIVE collapseHyphens(_)
collapseHyphens(s) ==
  IF Len(s) < 2 THEN s
  ELSE IF s[1] = "-" /\ s[2] = "-" THEN collapseHyphens(Tail(s))
       ELSE <<s[1]>> \o collapseHyphens(Tail(s))

\* .replace(/^-|-$/g, '')
stripHyphens(s) ==
  LET a == IF s # <<>> /\ s[1] = "-" THEN Tail(s) ELSE s
  IN  IF a # <<>> /\ a[Len(a)] = "-" THEN SubSeq(a, 1, Len(a) - 1) ELSE a

generateNodeId(label) ==
  Bind(replaceNonAlnum(toLowerCase(label)), LAMBDA replaced :
  Bind(collapseHyphens(replaced), LAMBDA collapsed :
    stripHyphens(collapsed)))

\* a search that looks at the last node of the array only
findNodeLast(nodes, nodeId, i) ==
  IF nodes # <<>> /\ nodes[Len(nodes)].id = nodeId THEN Len(nodes) ELSE 0

\* index of the first node with the given id, 0 when there is none
RECURSIVE findNode(_, _, _)
findNode(nodes, nodeId, i) ==
  IF i > Len(nodes) THEN 0
  ELSE IF nodes[i].id = nodeId THEN i
       ELSE findNode(nodes, nodeId, i + 1)

\* createOrUpdateNode without the occurrence count of a repeated mention
createOrUpdateNodeUncounted(nodes, label) ==
  Bind(generateNodeId(label), LAMBDA nodeId :
  Bind(findNode(nodes, nodeId, 1), LAMBDA existingNode :
    IF existingNode # 0
    THEN [nodes |-> nodes, node |-> existingNode]
    ELSE [nodes |-> Append(nodes,
                      [id |-> nodeId, label |-> label, type |-> "entity",
                       isHypergraph |-> FALSE, isGenerated |-> FALSE,
                       occurrences |-> 1]),
          node |-> Len(nodes) + 1]))

\* createOrUpdateNode returns a reference into the nodes array: here the
\* updated array and the index of the node
createOrUpdateNode(nodes, label) ==
  Bind(generateNodeId(label), LAMBDA nodeId :
  Bind(findNode(nodes, nodeId, 1), LAMBDA existingNode :
    IF existingNode # 0
    THEN [nodes |-> [nodes EXCEPT ![existingNode].occurrences = @ + 1],
          node |-> existingNode]
    ELSE [nodes |-> Append(nodes,
                      [id |-> nodeId, label |-> label, type |-> "entity",
                       isHypergraph |-> FALSE, isGenerated |-> FALSE,
                       occurrences |-> 1]),
          node |-> Len(nodes) + 1]))

\* nodes.map(label => createOrUpdateNode(nodes, label)): the array after all
\* the calls and the references returned, in order
RECURSIVE createOrUpdateNodes(_, _, _)
createOrUpdateNodes(nodes, labels, refs) ==
  IF labels = <<>> THEN [nodes |-> nodes, refs |-> refs]
  ELSE Bind(createOrUpdateNode(nodes, Head(labels)), LAMBDA r :
         createOrUpdateNodes(r.nodes, Tail(labels), Append(refs, r.node)))

\* ------------------------------------------------------------------------
\* MettaParser.ts: tokenizer and expression parser
\* ------------------------------------------------------------------------
\* The loop of tokenize over the characters of content, from index i (1-based)
RECURSIVE tokenizeLoop(_, _, _, _, _, _)
tokenizeLoop(content, i, tokens, current, parenDepth, inToken) ==
  IF i > Len(content)
  THEN IF trim(current) # <<>> THEN Append(tokens, trim(current)) ELSE tokens
  ELSE LET char == content[i] IN
       IF char = "("
       THEN tokenizeLoop(content, i + 1, tokens, Append(current, char),
                         parenDepth + 1, TRUE)
       ELSE IF char = ")"
       THEN IF parenDepth - 1 = 0 /\ inToken
            THEN tokenizeLoop(content, i + 1,
                              Append(tokens, trim(Append(current, char))),
                              <<>>, parenDepth - 1, FALSE)
            ELSE tokenizeLoop(content, i + 1, tokens, Append(current, char),
                              parenDepth - 1, inToken)
       ELSE IF char = " " /\ parenDepth = 0
       THEN IF trim(current) # <<>>
            THEN tokenizeLoop(content, i + 1, Append(tokens, trim(current)),
                              <<>>, parenDepth, FALSE)
            ELSE tokenizeLoop(content, i + 1, tokens, current,
                              parenDepth, FALSE)
       ELSE tokenizeLoop(content, i + 1, tokens, Append(current, char),
                         parenDepth, TRUE)

tokenize(content) == tokenizeLoop(content, 1, <<>>, <<>>, 0, FALSE)

\* ParsedExpression | null.  An argument is a string or a ParsedExpression.
NullExpression == [isNull |-> TRUE, predicate |-> <<>>, args |-> <<>>]
StringArg(token) == [isExpr |-> FALSE, str |-> token, expr |-> NullExpression]
NestedArg(e) == [isExpr |-> TRUE, str |-> <<>>, expr |-> e]

RECURSIVE parseExpression(_)
RECURSIVE parseArgs(_, _, _)

\* the loop of parseExpression over tokens[1..]
parseArgs(tokens, i, args) ==
  IF i > Len(tokens) THEN args
  ELSE LET token == tokens[i] IN
       IF charAt(token, 0) = "(" /\ charAt(token, Len(token) - 1) = ")"
       THEN LET nested == parseExpression(token) IN
            IF ~nested.isNull
            THEN parseArgs(tokens, i + 1, Append(args, NestedArg(nested)))
            ELSE parseArgs(tokens, i + 1, args)
       ELSE parseArgs(tokens, i + 1, Append(args, StringArg(token)))

parseExpression(expression) ==
  LET trimmed == trim(expression) IN
  IF charAt(trimmed, 0) # "(" \/ charAt(trimmed, Len(trimmed) - 1) # ")"
  THEN NullExpression
  ELSE LET content == trim(slice(trimmed, 1, Len(trimmed) - 1))
           tokens == tokenize(content)
       IN  IF Len(tokens) < 2 THEN NullExpression
           ELSE [isNull |-> FALSE, predicate |-> tokens[1],
                 args |-> parseArgs(tokens, 2, <<>>)]

\* ------------------------------------------------------------------------
\* MettaParser.ts: triple extraction
\* ------------------------------------------------------------------------
\* A subject or object is `string | string[]`: isArray is Array.isArray of
\* the value, items its elements (the one string when it is a scalar)
Scalar(str) == [isArray |-> FALSE, items |-> <<str>>]
Array(strs) == [isArray |-> TRUE, items |-> strs]

\* the string arguments of an expression, in order
RECURSIVE stringArgsOf(_)
stringArgsOf(args) ==
  IF args = <<>> THEN <<>>
  ELSE IF Head(args).isExpr THEN stringArgsOf(Tail(args))
       ELSE <<Head(args).str>> \o stringArgsOf(Tail(args))

\* nestedObjectsOf without the predicate of the nested expression
RECURSIVE nestedObjectsWithoutPredicate(_)
nestedObjectsWithoutPredicate(args) ==
  IF args = <<>> THEN <<>>
  ELSE IF Head(args).isExpr
       THEN stringArgsOf(Head(args).expr.args)
              \o nestedObjectsWithoutPredicate(Tail(args))
       ELSE nestedObjectsWithoutPredicate(Tail(args))

\* the objects of a hypergraph: for each nested argument its predicate
\* followed by its string arguments
RECURSIVE nestedObjectsOf(_)
nestedObjectsOf(args) ==
  IF args = <<>> THEN <<>>
  ELSE IF Head(args).isExpr
       THEN <<Head(args).expr.predicate>> \o stringArgsOf(Head(args).expr.args)
              \o nestedObjectsOf(Tail(args))
       ELSE nestedObjectsOf(Tail(args))

\* expressionToTriple with the objects of a simple triple always an array
expressionToTripleArrayObject(parsed) ==
  LET hasNestedExpressions ==
        \E i \in 1..Len(parsed.args) : parsed.args[i].isExpr
  IN  IF hasNestedExpressions
      THEN LET subjects == stringArgsOf(parsed.args)
               objects == nestedObjectsOf(parsed.args)
           IN  << [predicate |-> parsed.predicate,
                   subject |-> IF Len(subjects) = 1 THEN Scalar(subjects[1])
                               ELSE Array(subjects),
                   object |-> IF Len(objects) = 1 THEN Scalar(objects[1])
                              ELSE Array(objects),
                   isHypergraph |-> TRUE] >>
      ELSE LET stringArgs == stringArgsOf(parsed.args) IN
           IF Len(stringArgs) >= 2
           THEN << [predicate |-> parsed.predicate,
                    subject |-> Scalar(stringArgs[1]),
                    object |-> Array(Tail(stringArgs)),
                    isHypergraph |-> FALSE] >>
           ELSE <<>>

\* Triple | null, as a sequence of no or one Triple
expressionToTriple(parsed) ==
  LET hasNestedExpressions ==
        \E i \in 1..Len(parsed.args) : parsed.args[i].isExpr
  IN  IF hasNestedExpressions
      THEN LET subjects == stringArgsOf(parsed.args)
               objects == nestedObjectsOf(parsed.args)
           IN  << [predicate |-> parsed.predicate,
                   subject |-> IF Len(subjects) = 1 THEN Scalar(subjects[1])
                               ELSE Array(subjects),
                   object |-> IF Len(objects) = 1 THEN Scalar(objects[1])
                              ELSE Array(objects),
                   isHypergraph |-> TRUE] >>
      ELSE LET stringArgs == stringArgsOf(parsed.args) IN
           IF Len(stringArgs) >= 2
           THEN << [predicate |-> parsed.predicate,
                    subject |-> Scalar(stringArgs[1]),
                    object |-> IF Len(Tail(stringArgs)) = 1
                               THEN Scalar(stringArgs[2])
                               ELSE Array(Tail(stringArgs)),
                    isHypergraph |-> FALSE] >>
           ELSE <<>>

\* mettaText.split('\n')
RECURSIVE splitLinesLoop(_, _, _, _)
splitLinesLoop(text, i, lines, current) ==
  IF i > Len(text) THEN Append(lines, current)
  ELSE IF text[i] = "\n"
       THEN splitLinesLoop(text, i + 1, Append(lines, current), <<>>)
       ELSE splitLinesLoop(text, i + 1, lines, Append(current, text[i]))

splitLines(text) == splitLinesLoop(text, 1, <<>>, <<>>)

\* the triples one line contributes in extractTriples
lineTriples(line) ==
  LET trimmedLine == trim(line) IN
  IF trimmedLine = <<>> \/ charAt(trimmedLine, 0) = ";" THEN <<>>
  ELSE LET parsed == parseExpression(trimmedLine) IN
       IF parsed.isNull THEN <<>> ELSE expressionToTriple(parsed)

RECURSIVE extractTriplesLoop(_, _, _)
extractTriplesLoop(lines, i, triples) ==
  IF i > Len(lines) THEN triples
  ELSE extractTriplesLoop(lines, i + 1, triples \o lineTriples(lines[i]))

extractTriples(mettaText) == extractTriplesLoop(splitLines(mettaText), 1, <<>>)

\* ------------------------------------------------------------------------
\* MettaParser.ts: syntax validation
\* ------------------------------------------------------------------------
Min2(a, b) == IF a < b THEN a ELSE b

\* levenshteinRow with a substitution charged as a deletion and an insertion
RECURSIVE levenshteinRowCostly(_, _, _, _, _)
levenshteinRowCostly(str1, str2, j, prev, row) ==
  LET i == Len(row) IN
  IF i > Len(str1) THEN row
  ELSE LET indicator == IF str1[i] = str2[j] THEN 0 ELSE 2
           cell == Min2(Min2(row[i] + 1, prev[i + 1] + 1), prev[i] + indicator)
       IN  levenshteinRowCostly(str1, str2, j, prev, Append(row, cell))

\* one row of the matrix of levenshteinDistance, filled left to right;
\* prev is row j - 1, row holds the cells 0 .. i - 1 of row j
RECURSIVE levenshteinRow(_, _, _, _, _)
levenshteinRow(str1, str2, j, prev, row) ==
  LET i == Len(row) IN
  IF i > Len(str1) THEN row
  ELSE LET indicator == IF str1[i] = str2[j] THEN 0 ELSE 1
           cell == Min2(Min2(row[i] + 1, prev[i + 1] + 1), prev[i] + indicator)
       IN  levenshteinRow(str1, str2, j, prev, Append(row, cell))

RECURSIVE levenshteinRows(_, _, _, _)
levenshteinRows(str1, str2, j, prev) ==
  IF j > Len(str2) THEN prev
  ELSE levenshteinRows(str1, str2, j + 1,
                       levenshteinRow(str1, str2, j, prev, <<j>>))

levenshteinDistance(str1, str2) ==
  levenshteinRows(str1, str2, 1, [i \in 1..(Len(str1) + 1) |-> i - 1])
    [Len(str1) + 1]

commonPredicates ==
  << <<"g","e","n","d","e","r">>,
     <<"i","s","-","p","a","r","e","n","t">>,
     <<"i","s","-","b","r","o","t","h","e","r">>,
     <<"i","s","-","s","i","s","t","e","r">>,
     <<"a","g","e">>,
     <<"n","a","m","e">> >>

\* the first dictionary entry at distance exactly 1, 0 when there is none
RECURSIVE findSimilarPredicate(_, _)
findSimilarPredicate(predicate, j) ==
  IF j > Len(commonPredicates) THEN 0
  ELSE IF levenshteinDistance(toLowerCase(predicate), commonPredicates[j]) = 1
       THEN j
       ELSE findSimilarPredicate(predicate, j + 1)

\* A ParseError.  The message is its fixed text; the two strings that the
\* warning's template inserts are kept beside it.
ParseError(line, column, message, severity, similar, found) ==
  [line |-> line, column |-> column, message |-> message,
   severity |-> severity, similar |-> similar, found |-> found]

\* the scan of one line for unbalanced parentheses: the count, the last
\* opening parenthesis and the index at which the scan broke off (-1: none)
RECURSIVE parenScan(_, _, _, _)
parenScan(line, j, parenCount, lastOpenParen) ==
  IF j >= Len(line)
  THEN [parenCount |-> parenCount, lastOpenParen |-> lastOpenParen,
        brokeAt |-> -1]
  ELSE IF line[j + 1] = "("
       THEN parenScan(line, j + 1, parenCount + 1, j)
       ELSE IF line[j + 1] = ")"
            THEN IF parenCount - 1 < 0
                 THEN [parenCount |-> parenCount - 1,
                       lastOpenParen |-> lastOpenParen, brokeAt |-> j]
                 ELSE parenScan(line, j + 1, parenCount - 1, lastOpenParen)
            ELSE parenScan(line, j + 1, parenCount, lastOpenParen)

\* the errors and warnings that the body of validateSyntax's loop adds for
\* the line with 0-based index i
validateLine(rawLine, i) ==
  LET line == trim(rawLine)
      none == [errors |-> <<>>, warnings |-> <<>>]
  IN
  IF line = <<>> \/ charAt(line, 0) = ";" THEN none
  ELSE
  LET hasOpenParen == charAt(line, 0) = "("
      hasCloseParen == charAt(line, Len(line) - 1) = ")"
  IN
  IF ~hasOpenParen \/ (~hasCloseParen /\ ~hasOpenParen)
  THEN [errors |-> << ParseError(i + 1, 0,
                        "Expression must be enclosed in parentheses",
                        "error", <<>>, <<>>) >>,
        warnings |-> <<>>]
  ELSE
  LET scan == parenScan(line, 0, 0, -1)
      closing == IF scan.brokeAt # -1
                 THEN << ParseError(i + 1, scan.brokeAt + 1,
                           "Unmatched closing parenthesis",
                           "error", <<>>, <<>>) >>
                 ELSE <<>>
      opening == IF scan.parenCount > 0
                 THEN << ParseError(i + 1, scan.lastOpenParen + 1,
                           "Unmatched opening parenthesis",
                           "error", <<>>, <<>>) >>
                 ELSE <<>>
      hasUnbalancedParens == scan.brokeAt # -1 \/ scan.parenCount > 0
  IN
  IF hasUnbalancedParens THEN [errors |-> closing \o opening, warnings |-> <<>>]
  ELSE IF ~(Len(line) > 2) THEN none
  ELSE
  LET content == trim(slice(line, 1, Len(line) - 1))
      parts == splitWhitespace(content)
  IN
  IF Len(parts) < 2
  THEN [errors |-> << ParseError(i + 1, 1,
          "Expression must have at least a predicate and one argument",
          "error", <<>>, <<>>) >>,
        warnings |-> <<>>]
  ELSE
  LET predicate == parts[1]
      similar == findSimilarPredicate(predicate, 1)
  IN
  IF similar # 0 /\ predicate # commonPredicates[similar]
  THEN [errors |-> <<>>,
        warnings |-> << ParseError(i + 1, 1, "Did you mean", "warning",
                          commonPredicates[similar], predicate) >>]
  ELSE none

\* validateLoop giving up at the first line that has an error
RECURSIVE validateLoopStopping(_, _, _, _)
validateLoopStopping(lines, i, errors, warnings) ==
  IF i >= Len(lines) \/ errors # <<>>
  THEN [errors |-> errors, warnings |-> warnings]
  ELSE LET r == validateLine(lines[i + 1], i)
       IN  validateLoopStopping(lines, i + 1, errors \o r.errors,
                                warnings \o r.warnings)

RECURSIVE validateLoop(_, _, _, _)
validateLoop(lines, i, errors, warnings) ==
  IF i >= Len(lines) THEN [errors |-> errors, warnings |-> warnings]
  ELSE LET r == validateLine(lines[i + 1], i)
       IN  validateLoop(lines, i + 1, errors \o r.errors,
                        warnings \o r.warnings)

\* ValidationResult
validateSyntax(mettaText) ==
  LET r == validateLoop(splitLines(mettaText), 0, <<>>, <<>>)
  IN  [isValid |-> r.errors = <<>>, errors |-> r.errors,
       warnings |-> r.warnings]

\* ------------------------------------------------------------------------
\* GraphTransformer.ts
\* ------------------------------------------------------------------------
\* Array.isArray(v) ? v : [v]
asArray(v) == v.items

\* /^[A-Z][a-z]+$/
IsCapitalizedWord(label) ==
  /\ Len(label) >= 2
  /\ IsUpper(label[1])
  /\ \A i \in 2..Len(label) : IsLower(label[i])

\* /^[0-9]+$/
IsInteger(label) ==
  Len(label) >= 1 /\ \A i \in 1..Len(label) : IsDigit(label[i])

\* /^[MF]$/
IsGenderMarker(label) == label \in { <<"M">>, <<"F">> }

\* /^(true|false)$/i
IsBoolean(label) ==
  toLowerCase(label) \in { <<"t","r","u","e">>, <<"f","a","l","s","e">> }

determineNodeType(label, predicate) ==
  IF IsCapitalizedWord(label) THEN "entity"
  ELSE IF IsInteger(label) \/ IsGenderMarker(label) \/ IsBoolean(label)
       THEN "value"
       ELSE IF predicate = label THEN "predicate"
            ELSE "entity"

\* setNodeProperties over the referenced nodes (the colour is left out)
RECURSIVE setNodeProperties(_, _, _)
setNodeProperties(nodes, refs, predicate) ==
  IF refs = <<>> THEN nodes
  ELSE Bind(Head(refs), LAMBDA n :
       Bind(IF nodes[n].type = "entity"
            THEN [nodes EXCEPT ![n].type =
                    determineNodeType(nodes[n].label, predicate)]
            ELSE nodes, LAMBDA updated :
         setNodeProperties(updated, Tail(refs), predicate)))

edgeExists(edges, edgeId) == \E i \in 1..Len(edges) : edges[i].id = edgeId

\* the edge id in the order of the bidirectional keys
edgeIdSourceFirst(predicate, sourceId, targetId) ==
  Hyphen(Hyphen(sourceId, targetId), predicate)

\* `${triple.predicate}-${sourceNode.id}-${targetNode.id}`
edgeIdOf(predicate, sourceId, targetId) ==
  Hyphen(Hyphen(predicate, sourceId), targetId)

\* the inner forEach of createEdgesBetweenNodes: one source, all targets
RECURSIVE createEdgesFrom(_, _, _, _, _)
createEdgesFrom(nodes, sourceNode, targetNodes, triple, edges) ==
  IF targetNodes = <<>> THEN edges
  ELSE Bind(Head(targetNodes), LAMBDA targetNode :
       Bind(edgeIdOf(triple.predicate, nodes[sourceNode].id,
                     nodes[targetNode].id), LAMBDA edgeId :
       Bind(IF ~edgeExists(edges, edgeId)
            THEN Append(edges,
                   [id |-> edgeId, source |-> nodes[sourceNode].id,
                    target |-> nodes[targetNode].id,
                    label |-> triple.predicate, directed |-> TRUE,
                    type |-> "relation"])
            ELSE edges, LAMBDA added :
         createEdgesFrom(nodes, sourceNode, Tail(targetNodes), triple, added))))

RECURSIVE createEdgesBetweenNodes(_, _, _, _, _)
createEdgesBetweenNodes(nodes, sourceNodes, targetNodes, triple, edges) ==
  IF sourceNodes = <<>> THEN edges
  ELSE Bind(createEdgesFrom(nodes, Head(sourceNodes), targetNodes, triple,
                            edges), LAMBDA added :
         createEdgesBetweenNodes(nodes, Tail(sourceNodes), targetNodes, triple,
                                 added))

\* entityNodes are references into nodes; intermediateNode is the node itself
RECURSIVE createHypergraphConnections(_, _, _, _, _)
createHypergraphConnections(nodes, entityNodes, intermediateNode, triple, edges) ==
  IF entityNodes = <<>> THEN edges
  ELSE Bind(Head(entityNodes), LAMBDA entityNode :
       Bind(edgeIdOf(triple.predicate, nodes[entityNode].id,
                     intermediateNode.id), LAMBDA edgeId :
       Bind(IF ~edgeExists(edges, edgeId)
            THEN Append(edges,
                   [id |-> edgeId, source |-> nodes[entityNode].id,
                    target |-> intermediateNode.id,
                    label |-> triple.predicate, directed |-> FALSE,
                    type |-> "hypergraph_connection"])
            ELSE edges, LAMBDA added :
         createHypergraphConnections(nodes, Tail(entityNodes),
                                     intermediateNode, triple, added))))

groupSuffix == <<"g","r","o","u","p">>

\* `${predicate}-group-${counter}`
intermediateIdOf(predicate, counter) ==
  Hyphen(Hyphen(predicate, groupSuffix), numberToString(counter))

createIntermediateNode(predicate, counter) ==
  [id |-> intermediateIdOf(predicate, counter),
   label |-> predicate \o <<" ">> \o groupSuffix,
   type |-> "hypergraph", isHypergraph |-> TRUE, isGenerated |-> TRUE,
   occurrences |-> 1]

\* the HypergraphStructure built after hypergraphCounter was incremented
createHypergraphStructures(triple, counter) ==
  << [id |-> Hyphen(<<"h","y","p","e","r","g","r","a","p","h">>,
                    numberToString(counter)),
      predicate |-> triple.predicate,
      subjects |-> asArray(triple.subject),
      objects |-> asArray(triple.object),
      intermediateNodeId |-> intermediateIdOf(triple.predicate, counter)] >>

\* g is the graph under construction: nodes, edges, hypergraphs and the
\* transformer's hypergraphCounter
processSimpleTriple(g, triple) ==
  Bind(asArray(triple.subject), LAMBDA subjects :
  Bind(asArray(triple.object), LAMBDA objects :
  Bind(createOrUpdateNodes(g.nodes, subjects, <<>>), LAMBDA subjectNodes :
  Bind(createOrUpdateNodes(subjectNodes.nodes, objects, <<>>), LAMBDA objectNodes :
  Bind(setNodeProperties(objectNodes.nodes,
                         subjectNodes.refs \o objectNodes.refs,
                         triple.predicate), LAMBDA typed :
    [g EXCEPT !.nodes = typed,
              !.edges = createEdgesBetweenNodes(typed, subjectNodes.refs,
                                                objectNodes.refs, triple,
                                                g.edges)])))))

processHypergraphTriple(g, triple) ==
  Bind(asArray(triple.subject) \o asArray(triple.object), LAMBDA allEntities :
  Bind(createOrUpdateNodes(g.nodes, allEntities, <<>>), LAMBDA entityNodes :
  Bind(/\ g.hypergraphs # <<>>
       /\ g.hypergraphs[Len(g.hypergraphs)].intermediateNodeId # <<>>,
       LAMBDA hasHypergraph :
  Bind(createIntermediateNode(triple.predicate, g.hypergraphCounter),
       LAMBDA intermediateNode :
  Bind(IF hasHypergraph THEN Append(entityNodes.nodes, intermediateNode)
       ELSE entityNodes.nodes, LAMBDA withNode :
    [g EXCEPT !.nodes = setNodeProperties(withNode, entityNodes.refs,
                                          triple.predicate),
              !.edges = IF hasHypergraph
                        THEN createHypergraphConnections(
                               entityNodes.nodes, entityNodes.refs,
                               intermediateNode, triple, g.edges)
                        ELSE g.edges])))))

\* `${edge.source}-${edge.target}-${edge.label}`
forwardKeyOf(edge) == Hyphen(Hyphen(edge.source, edge.target), edge.label)
reverseKeyOf(edge) == Hyphen(Hyphen(edge.target, edge.source), edge.label)

\* first pass of detectBidirectionalRelationships: the pairs flagged (a pair
\* key is the sorted join of the two keys, i.e. the unordered pair)
bidirectionalPairs(edges) ==
  { {forwardKeyOf(edges[i]), reverseKeyOf(edges[i])} :
      i \in { k \in 1..Len(edges) :
                \E j \in 1..k : forwardKeyOf(edges[j]) = reverseKeyOf(edges[k]) } }

\* second pass: an edge is kept unless its forward key was already kept
RECURSIVE keepDirectedEdges(_, _, _)
keepDirectedEdges(edges, processedEdges, processedEdgeIds) ==
  IF edges = <<>> THEN processedEdges
  ELSE Bind(Head(edges), LAMBDA edge :
       Bind(forwardKeyOf(edge), LAMBDA forwardKey :
         IF forwardKey \notin processedEdgeIds
         THEN keepDirectedEdges(Tail(edges), Append(processedEdges, edge),
                                processedEdgeIds \cup {forwardKey})
         ELSE keepDirectedEdges(Tail(edges), processedEdges, processedEdgeIds)))

detectBidirectionalRelationships(edges) == keepDirectedEdges(edges, <<>>, {})

createGraphMetadata(nodes, edges, hypergraphs) ==
  [nodeCount |-> Len(nodes), edgeCount |-> Len(edges),
   hypergraphCount |-> Len(hypergraphs)]

\* the loop of transformTriplestoGraph
RECURSIVE processTriples(_, _, _)
processTriples(g, triples, index) ==
  IF index >= Len(triples) THEN g
  ELSE Bind(triples[index + 1], LAMBDA triple :
         IF triple.isHypergraph
         THEN Bind(g.hypergraphCounter + 1, LAMBDA counter :
              Bind([g EXCEPT !.hypergraphCounter = counter,
                             !.hypergraphs =
                                @ \o createHypergraphStructures(triple, counter)],
                   LAMBDA h :
              Bind(processHypergraphTriple(h, triple), LAMBDA next :
                processTriples(next, triples, index + 1))))
         ELSE Bind(processSimpleTriple(g, triple), LAMBDA next :
                processTriples(next, triples, index + 1)))

\* GraphData, with the edges array before the bidirectional pass and the
\* value of hypergraphCounter the call leaves in the transformer
transformTriplestoGraph(triples, counter) ==
  Bind(processTriples([nodes |-> <<>>, edges |-> <<>>, hypergraphs |-> <<>>,
                       hypergraphCounter |-> counter], triples, 0), LAMBDA g :
  Bind(detectBidirectionalRelationships(g.edges), LAMBDA processed :
    [nodes |-> g.nodes, rawEdges |-> g.edges, edges |-> processed,
     hypergraphs |-> g.hypergraphs,
     metadata |-> createGraphMetadata(g.nodes, processed, g.hypergraphs),
     hypergraphCounter |-> g.hypergraphCounter]))

\* ------------------------------------------------------------------------
\* GraphEngineImpl (GraphVisualizer.tsx): numbers, Map objects
\* ------------------------------------------------------------------------
\* a number is kept as the fraction n / d in lowest terms, with d > 0; NaN,
\* which 0 / 0 gives and every operation hands on, is kept as 0 / 0
RECURSIVE gcd(_, _)
gcd(a, b) == IF b = 0 THEN a ELSE gcd(b, a % b)

abs(a) == IF a < 0 THEN -a ELSE a

Rat(n, d) ==
  Bind(gcd(abs(n), abs(d)), LAMBDA g :
    [n |-> (IF d < 0 THEN -n ELSE n) \div g, d |-> abs(d) \div g])

Num(i) == [n |-> i, d |-> 1]
NaN == [n |-> 0, d |-> 0]
isNaN(a) == a.d = 0
negate(a) == Bind(a, LAMBDA x : [n |-> -x.n, d |-> x.d])
inverse(a) ==
  Bind(a, LAMBDA x :
    IF x.n < 0 THEN [n |-> -x.d, d |-> -x.n] ELSE [n |-> x.d, d |-> x.n])

\* the exact sum over the least common denominator, the exact product with
\* the common factors taken out first
exactSum(a, b) ==
  Bind(a, LAMBDA x : Bind(b, LAMBDA y :
    IF isNaN(x) \/ isNaN(y) THEN NaN
    ELSE Bind(gcd(x.d, y.d), LAMBDA g :
           Rat(x.n * (y.d \div g) + y.n * (x.d \div g),
               (x.d \div g) * y.d))))
exactProduct(a, b) ==
  Bind(a, LAMBDA x : Bind(b, LAMBDA y :
    IF isNaN(x) \/ isNaN(y) THEN NaN
    ELSE Bind(gcd(abs(x.n), y.d), LAMBDA g :
         Bind(gcd(abs(y.n), x.d), LAMBDA h :
           Rat((x.n \div g) * (y.n \div h),
               (x.d \div h) * (y.d \div g))))))

\* A JavaScript number is a binary floating-point number, and every
\* arithmetic operation is rounded to the nearest one, ties to even.  The
\* model keeps MantissaBits significant bits instead of 53, and no limit on
\* the exponent.
MantissaBits == 8

RECURSIVE pow2(_)
pow2(k) == IF k = 0 THEN 1 ELSE 2 * pow2(k - 1)

\* n / d > 0 as mantissa * 2^exponent, the mantissa rounded to MantissaBits
RECURSIVE normalise(_, _, _)
normalise(n, d, exponent) ==
  IF n >= pow2(MantissaBits) * d THEN normalise(n, 2 * d, exponent + 1)
  ELSE IF n < pow2(MantissaBits - 1) * d THEN normalise(2 * n, d, exponent - 1)
  ELSE Bind(n \div d, LAMBDA q :
       Bind(2 * (n % d), LAMBDA twice :
         [mantissa |-> IF twice > d \/ (twice = d /\ q % 2 = 1)
                       THEN q + 1 ELSE q,
          exponent |-> exponent]))

\* the floating-point number nearest to the rational a
roundToNearest(a) ==
  Bind(a, LAMBDA x :
    IF x.n = 0 \/ isNaN(x) THEN x
    ELSE Bind(normalise(abs(x.n), x.d, 0), LAMBDA f :
           Bind(IF f.exponent >= 0
                THEN Rat(f.mantissa * pow2(f.exponent), 1)
                ELSE Rat(f.mantissa, pow2(-f.exponent)), LAMBDA r :
             IF x.n < 0 THEN negate(r) ELSE r)))

\* a + b, a - b, a * b, a / b of JavaScript
plus(a, b) == roundToNearest(exactSum(a, b))
minus(a, b) == plus(a, negate(b))
times(a, b) == roundToNearest(exactProduct(a, b))
over(a, b) == roundToNearest(exactProduct(a, inverse(b)))
\* a <= b, a < b: false when either is NaN
lessEq(a, b) ==
  Bind(a, LAMBDA x : Bind(b, LAMBDA y :
    ~isNaN(x) /\ ~isNaN(y) /\ x.n * y.d <= y.n * x.d))
less(a, b) ==
  Bind(a, LAMBDA x : Bind(b, LAMBDA y :
    ~isNaN(x) /\ ~isNaN(y) /\ x.n * y.d < y.n * x.d))

Point(x, y) == [x |-> x, y |-> y]

\* a Map object: its entries in insertion order
EmptyMap == <<>>
MapHas(m, k) == \E i \in 1..Len(m) : m[i].key = k
MapGet(m, k) == m[CHOOSE i \in 1..Len(m) : m[i].key = k].value
MapSet(m, k, v) ==
  IF MapHas(m, k)
  THEN [i \in 1..Len(m) |->
          IF m[i].key = k THEN [key |-> k, value |-> v] ELSE m[i]]
  ELSE Append(m, [key |-> k, value |-> v])

\* the sum of the x (or y) of a sequence of points, added up from the first
RECURSIVE sumX(_)
sumX(points) ==
  IF points = <<>> THEN Num(0)
  ELSE plus(sumX(SubSeq(points, 1, Len(points) - 1)), points[Len(points)].x)
RECURSIVE sumY(_)
sumY(points) ==
  IF points = <<>> THEN Num(0)
  ELSE plus(sumY(SubSeq(points, 1, Len(points) - 1)), points[Len(points)].y)

nodePositions(nodes) == [i \in 1..Len(nodes) |-> nodes[i].position]
mapValues(m) == [i \in 1..Len(m) |-> m[i].value]

\* the offset that moves the centre of the positions onto the centre of the
\* nodes
centerOffset(nodes, positions) ==
  Point(minus(over(sumX(nodePositions(nodes)), Num(Len(nodes))),
              over(sumX(mapValues(positions)), Num(Len(positions)))),
        minus(over(sumY(nodePositions(nodes)), Num(Len(nodes))),
              over(sumY(mapValues(positions)), Num(Len(positions)))))

centerLayoutPositions(nodes, positions) ==
  IF positions = <<>> THEN positions
  ELSE Bind(centerOffset(nodes, positions), LAMBDA offset :
         [i \in 1..Len(positions) |->
            [key |-> positions[i].key,
             value |-> Point(plus(positions[i].value.x, offset.x),
                             plus(positions[i].value.y, offset.y))]])

\* calculateForceDirectedLayout: `simulated` is the positions Map the
\* simulation loop leaves (its square roots are not computed here), which the
\* method hands to centerLayoutPositions
calculateForceDirectedLayout(nodes, simulated) ==
  centerLayoutPositions(nodes, simulated)

\* positions.set(node.id, { ...node.position }) for every node: the Map the
\* simulation starts from, and ends with when options.iterations is 0
RECURSIVE copyPositions(_, _)
copyPositions(nodes, positions) ==
  IF nodes = <<>> THEN positions
  ELSE copyPositions(Tail(nodes),
                     MapSet(positions, Head(nodes).id, Head(nodes).position))

\* ------------------------------------------------------------------------
\* calculateHierarchicalLayout
\* ------------------------------------------------------------------------
inDegree(edges, id) == Cardinality({ i \in 1..Len(edges) : edges[i].target = id })
outDegree(edges, id) == Cardinality({ i \in 1..Len(edges) : edges[i].source = id })

\* the search state: the levels Map, the queue and the visited set
RECURSIVE rootNodes(_, _, _)
rootNodes(nodes, edges, search) ==
  IF nodes = <<>> THEN search
  ELSE IF inDegree(edges, Head(nodes).id) = 0
       THEN rootNodes(Tail(nodes), edges,
              [levels |-> MapSet(search.levels, Head(nodes).id, 0),
               queue |-> Append(search.queue, Head(nodes).id),
               visited |-> search.visited \cup {Head(nodes).id}])
       ELSE rootNodes(Tail(nodes), edges, search)

\* the scan for the node with most outgoing connections: rootNode starts as
\* '' and maxOutDegree as -1
RECURSIVE mostConnected(_, _, _, _)
mostConnected(nodes, edges, maxOutDegree, rootNode) ==
  IF nodes = <<>> THEN rootNode
  ELSE IF outDegree(edges, Head(nodes).id) > maxOutDegree
       THEN mostConnected(Tail(nodes), edges,
                          outDegree(edges, Head(nodes).id), Head(nodes).id)
       ELSE mostConnected(Tail(nodes), edges, maxOutDegree, rootNode)

\* `if (rootNode)`: the empty string is falsy
fallbackRoot(nodes, edges, search) ==
  IF search.queue # <<>> THEN search
  ELSE Bind(mostConnected(nodes, edges, -1, <<>>), LAMBDA rootNode :
         IF rootNode # <<>>
         THEN [levels |-> MapSet(search.levels, rootNode, 0),
               queue |-> Append(search.queue, rootNode),
               visited |-> search.visited \cup {rootNode}]
         ELSE search)

\* the edges.forEach of one dequeued node
RECURSIVE visitTargets(_, _, _, _)
visitTargets(edges, currentNode, currentLevel, search) ==
  IF edges = <<>> THEN search
  ELSE IF /\ Head(edges).source = currentNode
          /\ Head(edges).target \notin search.visited
       THEN visitTargets(Tail(edges), currentNode, currentLevel,
              [levels |-> MapSet(search.levels, Head(edges).target,
                                 currentLevel + 1),
               queue |-> Append(search.queue, Head(edges).target),
               visited |-> search.visited \cup {Head(edges).target}])
       ELSE visitTargets(Tail(edges), currentNode, currentLevel, search)

RECURSIVE breadthFirst(_, _)
breadthFirst(edges, search) ==
  IF search.queue = <<>> THEN search
  ELSE Bind(Head(search.queue), LAMBDA currentNode :
       Bind(visitTargets(edges, currentNode,
                         MapGet(search.levels, currentNode),
                         [search EXCEPT !.queue = Tail(search.queue)]),
            LAMBDA next :
         breadthFirst(edges, next)))

RECURSIVE unvisitedNodes(_, _, _)
unvisitedNodes(nodes, levels, visited) ==
  IF nodes = <<>> THEN levels
  ELSE IF Head(nodes).id \notin visited
       THEN unvisitedNodes(Tail(nodes), MapSet(levels, Head(nodes).id, 0),
                           visited)
       ELSE unvisitedNodes(Tail(nodes), levels, visited)

\* the levels Map of calculateHierarchicalLayout
hierarchicalLevels(nodes, edges) ==
  Bind(rootNodes(nodes, edges,
                 [levels |-> EmptyMap, queue |-> <<>>, visited |-> {}]),
       LAMBDA roots :
  Bind(fallbackRoot(nodes, edges, roots), LAMBDA started :
  Bind(breadthFirst(edges, started), LAMBDA search :
    unvisitedNodes(nodes, search.levels, search.visited))))

\* the levelGroups Map: level -> node ids, both in insertion order
RECURSIVE groupByLevel(_, _)
groupByLevel(levels, levelGroups) ==
  IF levels = <<>> THEN levelGroups
  ELSE Bind(Head(levels), LAMBDA entry :
         groupByLevel(Tail(levels),
           MapSet(levelGroups, entry.value,
                  Append(IF MapHas(levelGroups, entry.value)
                         THEN MapGet(levelGroups, entry.value)
                         ELSE <<>>, entry.key))))

maxOf(numbers) == CHOOSE m \in numbers : \A k \in numbers : k <= m

levelHeight == 170
nodeWidth == 120

\* nodeIds.forEach of one level group
RECURSIVE placeLevel(_, _, _, _, _)
placeLevel(nodeIds, index, startX, y, positions) ==
  IF index >= Len(nodeIds) THEN positions
  ELSE placeLevel(nodeIds, index + 1, startX, y,
         MapSet(positions, nodeIds[index + 1],
                Point(plus(plus(startX, Num(index * nodeWidth)),
                           over(Num(nodeWidth), Num(2))),
                      y)))

RECURSIVE placeLevels(_, _, _)
placeLevels(levelGroups, maxLevel, positions) ==
  IF levelGroups = <<>> THEN positions
  ELSE Bind(Head(levelGroups), LAMBDA group :
         placeLevels(Tail(levelGroups), maxLevel,
           placeLevel(group.value, 0,
             over(Num(-(Len(group.value) * nodeWidth)), Num(2)),
             times(minus(Num(group.key), over(Num(maxLevel), Num(2))),
                   Num(levelHeight)),
             positions)))

calculateHierarchicalLayout(nodes, edges) ==
  Bind(hierarchicalLevels(nodes, edges), LAMBDA levels :
  Bind(placeLevels(groupByLevel(levels, EmptyMap),
                   maxOf({ levels[i].value : i \in 1..Len(levels) }),
                   EmptyMap), LAMBDA positions :
    centerLayoutPositions(nodes, positions)))

\* ------------------------------------------------------------------------
\* calculateCircularLayout
\* ------------------------------------------------------------------------
\* Math.cos and Math.sin of 2 * PI * index / n for index 0..n-1, for the
\* circles of one, two and four nodes, whose angles are quarter turns
cosines(n) ==
  CASE n = 1 -> << Num(1) >>
    [] n = 2 -> << Num(1), Num(-1) >>
    [] n = 4 -> << Num(1), Num(0), Num(-1), Num(0) >>

sines(n) ==
  CASE n = 1 -> << Num(0) >>
    [] n = 2 -> << Num(0), Num(0) >>
    [] n = 4 -> << Num(0), Num(1), Num(0), Num(-1) >>

\* the nodeGroups Map: node type -> node ids
RECURSIVE groupByType(_, _)
groupByType(nodes, nodeGroups) ==
  IF nodes = <<>> THEN nodeGroups
  ELSE groupByType(Tail(nodes),
         MapSet(nodeGroups, Head(nodes).type,
                Append(IF MapHas(nodeGroups, Head(nodes).type)
                       THEN MapGet(nodeGroups, Head(nodes).type)
                       ELSE <<>>, Head(nodes).id)))

baseRadius == 130
radiusIncrement == 100

\* nodeIds.forEach of one circle
RECURSIVE placeCircle(_, _, _, _)
placeCircle(nodeIds, index, radius, positions) ==
  IF index >= Len(nodeIds) THEN positions
  ELSE placeCircle(nodeIds, index + 1, radius,
         MapSet(positions, nodeIds[index + 1],
                Point(times(cosines(Len(nodeIds))[index + 1], Num(radius)),
                      times(sines(Len(nodeIds))[index + 1], Num(radius)))))

RECURSIVE placeCircles(_, _, _)
placeCircles(groups, groupIndex, positions) ==
  IF groupIndex >= Len(groups) THEN positions
  ELSE placeCircles(groups, groupIndex + 1,
         placeCircle(groups[groupIndex + 1].value, 0,
                     baseRadius + groupIndex * radiusIncrement, positions))

calculateCircularLayout(nodes) ==
  IF nodes = <<>> THEN EmptyMap
  ELSE IF Len(nodes) = 1
       THEN MapSet(EmptyMap, nodes[1].id, Point(Num(0), Num(0)))
       ELSE Bind(groupByType(nodes, EmptyMap), LAMBDA groups :
              centerLayoutPositions(nodes,
                IF Len(groups) = 1
                THEN placeCircle(groups[1].value, 0,
                                 maxOf({baseRadius, Len(groups[1].value) * 15}),
                                 EmptyMap)
                ELSE placeCircles(groups, 0, EmptyMap)))

\* ------------------------------------------------------------------------
\* GraphEngineImpl: the methods
\* ------------------------------------------------------------------------
\* The methods act on a world w: the engine object (w.engine), the Map
\* objects ever assigned to its targetPositions field (w.maps; the field
\* holds the index of one of them, and so does the closure of a scheduled
\* callback), the callbacks the browser has pending (w.frames) and the next
\* handle requestAnimationFrame returns (w.nextFrameId). A null
\* animationFrameId is 0.
cancelAnimationFrame(frames, id) == { f \in frames : f.id # id }

\* stopLayout that leaves isAnimating as it was
stopLayoutStillAnimating(w) ==
  [w EXCEPT !.frames = IF w.engine.animationFrameId # 0
                       THEN cancelAnimationFrame(w.frames,
                                                 w.engine.animationFrameId)
                       ELSE w.frames,
            !.engine.animationFrameId = 0,
            !.maps[w.engine.targetPositions] = EmptyMap]

\* stopLayout that leaves the scheduled callback pending
stopLayoutNoCancel(w) ==
  [w EXCEPT !.engine.animationFrameId = 0,
            !.engine.layoutState.isAnimating = FALSE,
            !.maps[w.engine.targetPositions] = EmptyMap]

\* stopLayout that puts every node on its target before clearing the targets
stopLayoutSnap(w) ==
  [w EXCEPT !.frames = cancelAnimationFrame(w.frames, w.engine.animationFrameId),
            !.engine.animationFrameId = 0,
            !.engine.layoutState.isAnimating = FALSE,
            !.engine.nodes =
               [i \in 1..Len(w.engine.nodes) |->
                  IF MapHas(w.maps[w.engine.targetPositions], w.engine.nodes[i].id)
                  THEN [w.engine.nodes[i] EXCEPT !.position =
                          MapGet(w.maps[w.engine.targetPositions],
                                 w.engine.nodes[i].id)]
                  ELSE w.engine.nodes[i]],
            !.maps[w.engine.targetPositions] = EmptyMap]

stopLayout(w) ==
  [w EXCEPT !.frames = IF w.engine.animationFrameId # 0
                       THEN cancelAnimationFrame(w.frames,
                                                 w.engine.animationFrameId)
                       ELSE w.frames,
            !.engine.animationFrameId = 0,
            !.engine.layoutState.isAnimating = FALSE,
            !.maps[w.engine.targetPositions] = EmptyMap]

setData(w, nodes, edges) ==
  [w EXCEPT !.engine.nodes = nodes, !.engine.edges = edges]

\* requestAnimationFrame(animate): the closure of animate is kept with the
\* handle
requestAnimationFrame(w, closure) ==
  [w EXCEPT !.frames = @ \cup { [closure EXCEPT !.id = w.nextFrameId] },
            !.engine.animationFrameId = w.nextFrameId,
            !.nextFrameId = @ + 1]

\* startLayoutAnimation that puts every node on its target at once
startLayoutAnimationJumping(w, algorithm, targetPositions, duration, startTime) ==
  Bind([w EXCEPT !.maps = Append(@, targetPositions),
                 !.engine.targetPositions = Len(w.maps) + 1,
                 !.engine.nodes =
                    [i \in 1..Len(w.engine.nodes) |->
                       IF MapHas(targetPositions, w.engine.nodes[i].id)
                       THEN [w.engine.nodes[i] EXCEPT !.position =
                               MapGet(targetPositions, w.engine.nodes[i].id)]
                       ELSE w.engine.nodes[i]],
                 !.engine.layoutState =
                    [isAnimating |-> TRUE, progress |-> Num(0),
                     algorithm |-> algorithm, startTime |-> startTime,
                     duration |-> duration]], LAMBDA started :
    requestAnimationFrame(started,
      [id |-> 0,
       initialPositions |-> copyPositions(w.engine.nodes, EmptyMap),
       targetPositions |-> Len(w.maps) + 1,
       startTime |-> startTime,
       duration |-> duration]))

startLayoutAnimation(w, algorithm, targetPositions, duration, startTime) ==
  Bind([w EXCEPT !.maps = Append(@, targetPositions),
                 !.engine.targetPositions = Len(w.maps) + 1,
                 !.engine.layoutState =
                    [isAnimating |-> TRUE, progress |-> Num(0),
                     algorithm |-> algorithm, startTime |-> startTime,
                     duration |-> duration]], LAMBDA started :
    requestAnimationFrame(started,
      [id |-> 0,
       initialPositions |-> copyPositions(w.engine.nodes, EmptyMap),
       targetPositions |-> Len(w.maps) + 1,
       startTime |-> startTime,
       duration |-> duration]))

\* applyLayout; `simulated` is used by the force-directed algorithm only
applyLayout(w, algorithm, animationDuration, simulated, time) ==
  Bind(stopLayout(w), LAMBDA stopped :
    IF stopped.engine.nodes = <<>> THEN stopped
    ELSE startLayoutAnimation(stopped, algorithm,
           CASE algorithm = "hierarchical" ->
                  calculateHierarchicalLayout(stopped.engine.nodes,
                                              stopped.engine.edges)
             [] algorithm = "circular" ->
                  calculateCircularLayout(stopped.engine.nodes)
             [] OTHER ->
                  calculateForceDirectedLayout(stopped.engine.nodes, simulated),
           animationDuration, time))

\* Math.max(0, Math.min(elapsed / duration, 1)); with a duration of 0 the
\* quotient is NaN, Infinity or -Infinity, and Math.min and Math.max hand
\* NaN on
progressAt(elapsed, duration) ==
  IF duration = 0
  THEN IF elapsed = 0 THEN NaN
       ELSE IF elapsed > 0 THEN Num(1) ELSE Num(0)
  ELSE IF elapsed <= 0 THEN Num(0)
  ELSE IF elapsed >= duration THEN Num(1)
       ELSE over(Num(elapsed), Num(duration))

\* 1 - Math.pow(1 - progress, 3)
easeOutCubic(progress) ==
  Bind(minus(Num(1), progress), LAMBDA rest :
    minus(Num(1), times(rest, times(rest, rest))))

interpolate(initial, target, easedProgress) ==
  Point(plus(initial.x, times(minus(target.x, initial.x), easedProgress)),
        plus(initial.y, times(minus(target.y, initial.y), easedProgress)))

\* the nodes.forEach of animate
interpolateNodes(nodes, initialPositions, targetPositions, easedProgress) ==
  [i \in 1..Len(nodes) |->
     IF /\ MapHas(initialPositions, nodes[i].id)
        /\ MapHas(targetPositions, nodes[i].id)
     THEN [nodes[i] EXCEPT !.position =
             interpolate(MapGet(initialPositions, nodes[i].id),
                         MapGet(targetPositions, nodes[i].id),
                         easedProgress)]
     ELSE nodes[i]]

\* a copy of the layout state
getLayoutState(engine) == engine.layoutState

\* animate that leaves the progress it computed when the animation ends
animateKeepingProgress(w, frame, currentTime) ==
  Bind(progressAt(currentTime - frame.startTime, frame.duration),
       LAMBDA progress :
  Bind([w EXCEPT !.frames = @ \ {frame},
                 !.engine.nodes =
                    interpolateNodes(@, frame.initialPositions,
                                     w.maps[frame.targetPositions],
                                     easeOutCubic(progress)),
                 !.engine.layoutState.progress = progress], LAMBDA moved :
    IF less(progress, Num(1)) /\ moved.engine.layoutState.isAnimating
    THEN requestAnimationFrame(moved, frame)
    ELSE [moved EXCEPT !.engine.layoutState.isAnimating = FALSE,
                       !.maps[moved.engine.targetPositions] = EmptyMap,
                       !.engine.animationFrameId = 0]))

\* the browser runs the pending callback `frame` with the timestamp
\* currentTime
animate(w, frame, currentTime) ==
  Bind(progressAt(currentTime - frame.startTime, frame.duration),
       LAMBDA progress :
  Bind([w EXCEPT !.frames = @ \ {frame},
                 !.engine.nodes =
                    interpolateNodes(@, frame.initialPositions,
                                     w.maps[frame.targetPositions],
                                     easeOutCubic(progress)),
                 !.engine.layoutState.progress = progress], LAMBDA moved :
    IF less(progress, Num(1)) /\ moved.engine.layoutState.isAnimating
    THEN requestAnimationFrame(moved, frame)
    ELSE [moved EXCEPT !.engine.layoutState.isAnimating = FALSE,
                       !.engine.layoutState.progress = Num(1),
                       !.maps[moved.engine.targetPositions] = EmptyMap,
                       !.engine.animationFrameId = 0]))

\* index of the first node with the id, 0 when nodes.find gives undefined
RECURSIVE findIndex(_, _, _)
findIndex(nodes, nodeId, i) ==
  IF i > Len(nodes) THEN 0
  ELSE IF nodes[i].id = nodeId THEN i
       ELSE findIndex(nodes, nodeId, i + 1)

\* handleNodeDrag that also ends the animation
handleNodeDragStopping(w, nodeId, position) ==
  Bind(findIndex(w.engine.nodes, nodeId, 1), LAMBDA node :
    IF node # 0
    THEN stopLayout([w EXCEPT !.engine.nodes[node].position = position])
    ELSE w)

handleNodeDrag(w, nodeId, position) ==
  Bind(findIndex(w.engine.nodes, nodeId, 1), LAMBDA node :
    IF node # 0
    THEN [w EXCEPT !.engine.nodes[node].position = position]
    ELSE w)

screenToWorld(screenPoint, transform) ==
  Point(over(minus(screenPoint.x, transform.x), transform.scale),
        over(minus(screenPoint.y, transform.y), transform.scale))

nodeRadius == 20

\* dx * dx + dy * dy of a node and a world position
squaredDistance(node, worldPos) ==
  plus(times(minus(worldPos.x, node.position.x),
             minus(worldPos.x, node.position.x)),
       times(minus(worldPos.y, node.position.y),
             minus(worldPos.y, node.position.y)))

\* Math.sqrt(dx * dx + dy * dy) <= nodeRadius; a node further than the
\* radius along one axis is outside without squaring
withinRadius(node, worldPos) ==
  /\ lessEq(minus(worldPos.x, node.position.x), Num(nodeRadius))
  /\ lessEq(minus(node.position.x, worldPos.x), Num(nodeRadius))
  /\ lessEq(minus(worldPos.y, node.position.y), Num(nodeRadius))
  /\ lessEq(minus(node.position.y, worldPos.y), Num(nodeRadius))
  /\ lessEq(squaredDistance(node, worldPos), Num(nodeRadius * nodeRadius))

\* the loop of getNodeAtPosition: index of the node returned, 0 for null
RECURSIVE firstWithinRadius(_, _, _)
firstWithinRadius(nodes, worldPos, i) ==
  IF i > Len(nodes) THEN 0
  ELSE IF withinRadius(nodes[i], worldPos) THEN i
       ELSE firstWithinRadius(nodes, worldPos, i + 1)

getNodeAtPosition(nodes, position, transform) ==
  firstWithinRadius(nodes, screenToWorld(position, transform), 1)

\* ------------------------------------------------------------------------
\* State: one MettaParserImpl instance with its GraphTransformerImpl
\* ------------------------------------------------------------------------
VARIABLES
  mettaText,          \* the text last handed to the instance
  triples,            \* the Triple[] last extracted or transformed
  errors,             \* ParseResult.errors: the errors, then the warnings
  nodes,              \* GraphData.nodes
  edges,              \* the edges array built by the triple-processing pass
  processedEdges,     \* GraphData.edges, as detectBidirectionalRelationships returns it
  hypergraphs,        \* GraphData.hypergraphs
  metadata,           \* GraphData.metadata (without lastUpdated)
  hypergraphCounter,  \* GraphTransformerImpl.hypergraphCounter
  graphEngine,        \* the GraphEngineImpl object: nodes, edges, layoutState,
                      \* animationFrameId, targetPositions
  maps,               \* the Map objects assigned to targetPositions so far
  frames,             \* the animate callbacks the browser has pending
  nextFrameId,        \* the handle the next requestAnimationFrame returns
  now,                \* performance.now(), in units of half a duration
  lastCall            \* the last method called on its own, or callback run

engineVars == <<graphEngine, maps, frames, nextFrameId, now, lastCall>>

vars == <<mettaText, triples, errors, nodes, edges, processedEdges,
          hypergraphs, metadata, hypergraphCounter, graphEngine, maps,
          frames, nextFrameId, now, lastCall>>

Call(op, args, result) == [op |-> op, args |-> args, result |-> result]

\* the state after `new MettaParserImpl()`
Init ==
  /\ mettaText = <<>>
  /\ triples = <<>>
  /\ errors = <<>>
  /\ nodes = <<>>
  /\ edges = <<>>
  /\ processedEdges = <<>>
  /\ hypergraphs = <<>>
  /\ metadata = createGraphMetadata(<<>>, <<>>, <<>>)
  /\ hypergraphCounter = 0
  /\ graphEngine =
       [nodes |-> <<>>, edges |-> <<>>,
        layoutState |-> [isAnimating |-> FALSE, progress |-> Num(0),
                         algorithm |-> "force-directed", startTime |-> 0,
                         duration |-> 0],
        animationFrameId |-> 0,
        targetPositions |-> 1]
  /\ maps = << EmptyMap >>
  /\ frames = {}
  /\ nextFrameId = 1
  /\ now = 0
  /\ lastCall = Call("new", <<>>, 0)

\* the number of hypergraph triples of a sequence
RECURSIVE hypergraphTriples(_)
hypergraphTriples(ts) ==
  IF ts = <<>> THEN 0
  ELSE (IF Head(ts).isHypergraph THEN 1 ELSE 0) + hypergraphTriples(Tail(ts))

\* the assignments of transformTriplestoGraph(ts) on the instance
Transformed(ts) ==
  \E graphData \in { transformTriplestoGraph(ts, hypergraphCounter) } :
  /\ triples' = ts
  /\ nodes' = graphData.nodes
  /\ edges' = graphData.rawEdges
  /\ processedEdges' = graphData.edges
  /\ hypergraphs' = graphData.hypergraphs
  /\ metadata' = graphData.metadata
  /\ hypergraphCounter' = graphData.hypergraphCounter

\* MettaParserImpl.parse(text)
Parse(text) ==
  \E validation \in { validateSyntax(text) },
     extracted \in { extractTriples(text) } :
      /\ hypergraphCounter + hypergraphTriples(extracted) <= MaxCounter
      /\ mettaText' = text
      /\ errors' = validation.errors \o validation.warnings
      /\ Transformed(extracted)
      /\ UNCHANGED engineVars

\* GraphTransformerImpl.transformTriplestoGraph(ts), called directly
TransformTriples(ts) ==
  /\ hypergraphCounter + hypergraphTriples(ts) <= MaxCounter
  /\ Transformed(ts)
  /\ UNCHANGED <<mettaText, errors>>
  /\ UNCHANGED engineVars

\* ------------------------------------------------------------------------
\* Inputs
\* ------------------------------------------------------------------------
\* the characters typed into a line
TypedChars == {"(", ")", " ", "a"}

\* labels of generated facts: `a` and `A` differ but share a node id
FactLabels == { <<"a">>, <<"A">>, <<"b">>, <<"c">>, <<"a","-","b">> }
FactPredicates == { <<"p">>, <<"a">> }

\* ` a1 a2 ... an`
RECURSIVE spaced(_)
spaced(args) ==
  IF args = <<>> THEN <<>> ELSE <<" ">> \o Head(args) \o spaced(Tail(args))

\* the line `(p a1 ... an)`
FlatFact(p, args) == <<"(">> \o p \o spaced(args) \o <<")">>

\* the line `(p s (q x y))`
NestedFact(p, s, q, x, y) ==
  <<"(">> \o p \o <<" ">> \o s \o <<" ">> \o FlatFact(q, <<x, y>>) \o <<")">>

\* lines joined by line feeds
RECURSIVE joinLines(_)
joinLines(lines) ==
  IF Len(lines) = 1 THEN lines[1]
  ELSE lines[1] \o <<"\n">> \o joinLines(Tail(lines))

ArgLists == UNION { [1..n -> FactLabels] : n \in 1..MaxArgs }

FlatTexts == { FlatFact(p, args) : p \in FactPredicates, args \in ArgLists }

\* the text of k lines `(p a b)`
Repeated(p, a, b, k) == joinLines([i \in 1..k |-> FlatFact(p, <<a, b>>)])

RepeatedTexts ==
  { Repeated(p, ab[1], ab[2], k) :
      p \in FactPredicates, ab \in FactLabels \X FactLabels, k \in 2..MaxRepeat }

NestedTexts ==
  { NestedFact(<<"p">>, f[1], f[2], f[3], f[4]) :
      f \in FactLabels \X FactLabels \X FactLabels \X FactLabels }

\* lines of every kind the validator tells apart
SampleLines ==
  { <<>>,
    <<";"," ","c">>,
    <<"p"," ","a"," ","b">>,
    <<"(","p"," ","a"," ","b">>,
    <<"(","p"," ","a"," ","b",")",")">>,
    <<"(","p",")">>,
    <<"(","a","g","e","s"," ","a"," ","1",")">>,
    <<" ","(","p"," ","a","\t","b",")"," ">>,
    FlatFact(<<"p">>, << <<"a">>, <<"b">> >>),
    FlatFact(<<"p">>, << <<"b">>, <<"a">> >>),
    NestedFact(<<"p">>, <<"a">>, <<"b">>, <<"c">>, <<"A">>),
    NestedFact(<<"a">>, <<"b">>, <<"p">>, <<"a">>, <<"b">>) }

MixedTexts == { joinLines(<<l1, l2>>) : l1 \in SampleLines, l2 \in SampleLines }

Texts == FlatTexts \cup RepeatedTexts \cup NestedTexts \cup MixedTexts

\* ------------------------------------------------------------------------
\* Specifications
\* ------------------------------------------------------------------------
\* the application hands its first text to the instance
LoadText ==
  /\ mettaText = <<>>
  /\ \E text \in Texts : Parse(text)

\* the application parses the unchanged text again
Reparse ==
  /\ mettaText # <<>>
  /\ Parse(mettaText)

\* the text is emptied, and parsed
ClearText ==
  /\ mettaText # <<>>
  /\ Parse(<<>>)

Next == LoadText \/ Reparse \/ ClearText

Spec == Init /\ [][Next]_vars

\* one more character is typed at the end of a one-line text, which is parsed
TypeChar ==
  \E c \in TypedChars :
    /\ Len(mettaText) < MaxLineLen
    /\ Parse(Append(mettaText, c))

NextLine == TypeChar

SpecLine == Init /\ [][NextLine]_vars

\* labels and predicates of the triples handed to the transformer directly:
\* ids are joined with hyphens, and these labels contain hyphens too
TripleSubjects == { <<"a">>, <<"b">>, <<"a","-","b">> }
TripleObjects == { <<"a">>, <<"a","-","a">>, <<"a","-","b">> }
TriplePredicates == { <<"b">>, <<"b","-","b">> }
GroupLabel == <<"b","-","g","r","o","u","p","-","1">>

SimpleTriple(p, s, o) ==
  [predicate |-> p, subject |-> s, object |-> o, isHypergraph |-> FALSE]
HypergraphTriple(p, s, o) ==
  [predicate |-> p, subject |-> s, object |-> o, isHypergraph |-> TRUE]

ScalarTriples ==
  { SimpleTriple(p, Scalar(s), Scalar(o)) :
      p \in TriplePredicates, s \in TripleSubjects, o \in TripleObjects }

MultiTriples ==
  { SimpleTriple(<<"b">>, Array(<< <<"a">>, <<"a","-","b">> >>), o) :
      o \in { Array(<< <<"a">>, <<"a","-","b">> >>),
              Array(<< <<"a">>, <<"a">> >>),
              Scalar(<<"a">>) } }

HypergraphTriples ==
  { HypergraphTriple(<<"b">>, s, o) :
      s \in { Scalar(<<"a">>), Scalar(GroupLabel), Array(<<>>),
              Array(<< <<"a">>, <<"a","-","b">> >>) },
      o \in { Array(<< <<"a","-","b">>, <<"a">> >>),
              Array(<< <<"a">>, <<"a">>, <<"a","-","b">> >>) } }

TripleInputs == ScalarTriples \cup MultiTriples \cup HypergraphTriples

TripleSequences == UNION { [1..n -> TripleInputs] : n \in 1..MaxTriples }

\* the first call of transformTriplestoGraph on the instance
TransformFirst ==
  /\ triples = <<>>
  /\ \E ts \in TripleSequences : TransformTriples(ts)

\* the same triples are transformed again
TransformAgain ==
  /\ triples # <<>>
  /\ TransformTriples(triples)

\* an empty sequence of triples is transformed
TransformNone ==
  /\ triples # <<>>
  /\ TransformTriples(<<>>)

NextTransform == TransformFirst \/ TransformAgain \/ TransformNone

SpecTransform == Init /\ [][NextTransform]_vars

\* ------------------------------------------------------------------------
\* The layout engine: one GraphEngineImpl, the browser's animation frames
\* ------------------------------------------------------------------------
MaxLayouts == 2
MaxTime == 2
MaxFrames == 3

World == [engine |-> graphEngine, maps |-> maps, frames |-> frames,
          nextFrameId |-> nextFrameId]

\* the assignments a method leaves in the world
Becomes(w) ==
  /\ graphEngine' = w.engine
  /\ maps' = w.maps
  /\ frames' = w.frames
  /\ nextFrameId' = w.nextFrameId

parserVars == <<mettaText, triples, errors, nodes, edges, processedEdges,
                hypergraphs, metadata, hypergraphCounter>>

EngineNode(id, type, x, y) ==
  [id |-> id, type |-> type, position |-> Point(Num(x), Num(y))]
EngineEdge(source, target) == [source |-> source, target |-> target]

\* the chain a -> b -> c
ChainGraph ==
  [nodes |-> << EngineNode(<<"a">>, "entity", 0, 0),
                EngineNode(<<"b">>, "entity", 16, 0),
                EngineNode(<<"c">>, "value", 16, 176) >>,
   edges |-> << EngineEdge(<<"a">>, <<"b">>), EngineEdge(<<"b">>, <<"c">>) >>]

\* the graphs handed to setData; the empty id is generateNodeId of a label
\* without letters or digits, and two nodes share the id g when a label
\* normalises to the id of a generated intermediate node
SampleGraphs ==
  { [nodes |-> <<>>, edges |-> <<>>],
    [nodes |-> << EngineNode(<<"a">>, "entity", 8, 16) >>, edges |-> <<>>],
    ChainGraph,
    [nodes |-> << EngineNode(<<"r">>, "entity", 0, 0),
                  EngineNode(<<"a">>, "predicate", 120, 0),
                  EngineNode(<<"b">>, "value", 0, 100) >>,
     edges |-> << EngineEdge(<<"r">>, <<"a">>), EngineEdge(<<"a">>, <<"b">>),
                  EngineEdge(<<"r">>, <<"b">>) >>],
    [nodes |-> << EngineNode(<<"a">>, "entity", 0, 0),
                  EngineNode(<<"b">>, "entity", 120, 0),
                  EngineNode(<<"c">>, "value", 240, 100) >>,
     edges |-> << EngineEdge(<<"a">>, <<"b">>), EngineEdge(<<"b">>, <<"a">>),
                  EngineEdge(<<"b">>, <<"c">>) >>],
    [nodes |-> << EngineNode(<<>>, "entity", 0, 0),
                  EngineNode(<<"a">>, "entity", 120, 0) >>,
     edges |-> << EngineEdge(<<>>, <<"a">>), EngineEdge(<<"a">>, <<>>) >>],
    [nodes |-> << EngineNode(<<"g">>, "entity", 0, 0),
                  EngineNode(<<"a">>, "entity", 120, 0),
                  EngineNode(<<"g">>, "hypergraph", 60, 100) >>,
     edges |-> << EngineEdge(<<"a">>, <<"g">>) >>] }

LayoutAlgorithms == { "force-directed", "hierarchical", "circular" }

\* options.animationDuration, in the unit of `now`
AnimationDurations == { 2 }

\* the time that passes before the browser runs the pending callback
TickSteps == { 0, 1 }

\* node i is left at (100 i, -40 i)
RECURSIVE spreadPositions(_, _, _)
spreadPositions(ns, i, positions) ==
  IF i > Len(ns) THEN positions
  ELSE spreadPositions(ns, i + 1,
         MapSet(positions, ns[i].id, Point(Num(100 * i), Num(-40 * i))))

\* the positions the force simulation may leave: the start positions
\* (options.iterations = 0) or others
SimulatedPositions(ns) ==
  { copyPositions(ns, EmptyMap), spreadPositions(ns, 1, EmptyMap) }

DragIds == { <<"a">>, <<"z">> }
DragPositions == { Point(Num(40), Num(40)) }

HitPositions == { Point(Num(16), Num(0)) }
Transforms ==
  { [x |-> Num(0), y |-> Num(0), scale |-> Num(1)],
    [x |-> Num(-16), y |-> Num(0), scale |-> Num(2)] }

\* a first graph is loaded, or the chain replaces the graph shown
SetData ==
  \E graph \in SampleGraphs :
    /\ graphEngine.nodes = <<>> \/ graph = ChainGraph
    /\ Becomes(setData(World, graph.nodes, graph.edges))
    /\ lastCall' = Call("setData", <<>>, 0)
    /\ UNCHANGED <<now, parserVars>>

ApplyLayoutWith(animationDuration) ==
  \E algorithm \in LayoutAlgorithms :
    \E simulated \in IF algorithm = "force-directed"
                     THEN SimulatedPositions(graphEngine.nodes)
                     ELSE { EmptyMap } :
      /\ graphEngine.nodes # <<>> =>
            Len(maps) <= MaxLayouts /\ nextFrameId <= MaxFrames
      /\ Becomes(applyLayout(World, algorithm, animationDuration, simulated, now))
      /\ lastCall' = Call("applyLayout", <<algorithm>>,
                          graphEngine.animationFrameId)
      /\ UNCHANGED <<now, parserVars>>

ApplyLayout ==
  \E animationDuration \in AnimationDurations :
    ApplyLayoutWith(animationDuration)

StopLayout ==
  /\ Becomes(stopLayout(World))
  /\ lastCall' = Call("stopLayout", <<>>, graphEngine.animationFrameId)
  /\ UNCHANGED <<now, parserVars>>

HandleNodeDrag ==
  \E nodeId \in DragIds, position \in DragPositions :
    /\ graphEngine.nodes # <<>>
    /\ Becomes(handleNodeDrag(World, nodeId, position))
    /\ lastCall' = Call("handleNodeDrag", <<nodeId, position>>, 0)
    /\ UNCHANGED <<now, parserVars>>

GetNodeAtPosition ==
  \E position \in HitPositions, transform \in Transforms :
    /\ graphEngine.nodes # <<>>
    /\ lastCall' = Call("getNodeAtPosition", <<position, transform>>,
                        getNodeAtPosition(graphEngine.nodes, position,
                                          transform))
    /\ UNCHANGED <<graphEngine, maps, frames, nextFrameId, now, parserVars>>

\* the browser runs one pending callback, `step` later than the last event;
\* the call is recorded with the targets the callback finds in its Map
TickBy(step) ==
  \E frame \in frames :
    /\ now + step <= MaxTime
    /\ nextFrameId <= MaxFrames
    /\ now' = now + step
    /\ Becomes(animate(World, frame, now + step))
    /\ lastCall' = Call("animate", <<frame.id, frame.targetPositions,
                                     maps[frame.targetPositions]>>, 0)
    /\ UNCHANGED parserVars

Tick == \E step \in TickSteps : TickBy(step)

NextEngine ==
  \/ SetData
  \/ ApplyLayout
  \/ StopLayout
  \/ HandleNodeDrag
  \/ GetNodeAtPosition
  \/ Tick

SpecEngine == Init /\ [][NextEngine]_vars

\* One animation left to run: applyLayout is called on the idle engine at
\* time 0 and stopLayout is not called; every tick comes later than the one
\* before, and a pending callback is run sooner or later.
ApplyLayoutIdle ==
  /\ ~graphEngine.layoutState.isAnimating
  /\ now = 0
  /\ ApplyLayout

TickLater == TickBy(1)

NextAnimation ==
  \/ SetData
  \/ ApplyLayoutIdle
  \/ HandleNodeDrag
  \/ TickLater

SpecAnimation == Init /\ [][NextAnimation]_vars /\ WF_now(TickLater)

\* The methods that start, stop and advance animations, with applyLayout
\* also given a duration of 0 and the graph also emptied at the end while
\* the last animation runs.
ApplyLayoutAtOnce == ApplyLayoutWith(0)

ClearData ==
  /\ graphEngine.layoutState.isAnimating
  /\ Len(maps) > MaxLayouts
  /\ now = MaxTime
  /\ Becomes(setData(World, <<>>, <<>>))
  /\ lastCall' = Call("setData", <<>>, 0)
  /\ UNCHANGED <<now, parserVars>>

NextProgress ==
  \/ SetData
  \/ ClearData
  \/ ApplyLayout
  \/ ApplyLayoutAtOnce
  \/ StopLayout
  \/ HandleNodeDrag
  \/ Tick

SpecProgress == Init /\ [][NextProgress]_vars

\* ------------------------------------------------------------------------
\* Predicates near the validator's dictionary, and the edit distance alone
\* ------------------------------------------------------------------------
MaxWordLen == 3     \* longest string handed to levenshteinDistance directly

\* s without its k-th character, with it replaced by c, with c put before it
removeAt(s, k) == SubSeq(s, 1, k - 1) \o SubSeq(s, k + 1, Len(s))
replaceAt(s, k, c) == [s EXCEPT ![k] = c]
insertAt(s, k, c) == SubSeq(s, 1, k - 1) \o <<c>> \o SubSeq(s, k, Len(s))

\* the strings one edit with the letter c away from s
editsOf(s, c) ==
  { removeAt(s, k) : k \in 1..Len(s) }
    \cup { replaceAt(s, k, c) : k \in 1..Len(s) }
    \cup { insertAt(s, k, c) : k \in 1..(Len(s) + 1) }

\* predicates: the dictionary entries, the strings one edit away from one,
\* upper-case spellings, and strings two or more edits away from every entry
PredicateSamples ==
  UNION { {commonPredicates[j]} \cup editsOf(commonPredicates[j], "x") :
            j \in 1..Len(commonPredicates) }
    \cup { <<"A","g","e">>, <<"A","G","e","s">>, <<"N","a","m">>,
           <<"a","m","e">>, <<"p">>, <<"a","g","e","x","x">>,
           <<"g","e","n","d">>, <<"i","s","-","p","a","r","e","n","t","a","l">> }

PredicateArgs == { << <<"a">>, <<"b">> >>, << <<"a">> >> }

WordLetters == {"a", "b"}
Words == UNION { [1..n -> WordLetters] : n \in 0..MaxWordLen }

\* the application hands a one-fact text to a new instance
ParsePredicate ==
  /\ mettaText = <<>>
  /\ lastCall.op = "new"
  /\ \E p \in PredicateSamples, args \in PredicateArgs :
       Parse(FlatFact(p, args))

\* levenshteinDistance(str1, str2) on its own
LevenshteinDistance ==
  /\ mettaText = <<>>
  /\ lastCall.op = "new"
  /\ \E str1 \in Words, str2 \in Words :
       lastCall' = Call("levenshteinDistance", <<str1, str2>>,
                        levenshteinDistance(str1, str2))
  /\ UNCHANGED <<graphEngine, maps, frames, nextFrameId, now, parserVars>>

NextPredicate == ParsePredicate \/ LevenshteinDistance

SpecPredicate == Init /\ [][NextPredicate]_vars

\* ------------------------------------------------------------------------
\* Properties
\* ------------------------------------------------------------------------
NodeIds(ns) == { ns[i].id : i \in 1..Len(ns) }
EdgeIds(es) == { es[i].id : i \in 1..Len(es) }

\* the indices of the nodes with a given id
NodesWithId(id) == { i \in 1..Len(nodes) : nodes[i].id = id }

\* C1: two successive parse calls on the same text, on one instance, yield
\* the same set of node ids and the same set of edge ids, intermediate
\* hypergraph nodes and their connection edges included.
C1_ReparseKeepsIds ==
  [][ (mettaText # <<>> /\ mettaText' = mettaText)
        => /\ NodeIds(nodes') = NodeIds(nodes)
           /\ EdgeIds(processedEdges') = EdgeIds(processedEdges) ]_vars

\* C2: a fact line `(p a b)`, a and b with different node ids, repeated k
\* times gives exactly one node for a and one for b, each with k
\* occurrences, and exactly one edge.
C2_RepeatedFactOnce ==
  \A p \in FactPredicates, a \in FactLabels, b \in FactLabels,
     k \in 1..MaxRepeat :
    (mettaText = Repeated(p, a, b, k) /\ generateNodeId(a) # generateNodeId(b))
      => /\ Len(nodes) = 2
         /\ \A l \in {a, b} :
              /\ Cardinality(NodesWithId(generateNodeId(l))) = 1
              /\ \A i \in NodesWithId(generateNodeId(l)) :
                   nodes[i].occurrences = k
         /\ Len(processedEdges) = 1
         /\ processedEdges[1].label = p
         /\ processedEdges[1].source = generateNodeId(a)
         /\ processedEdges[1].target = generateNodeId(b)

C2_Witness ==
  /\ mettaText = Repeated(<<"p">>, <<"A">>, <<"b">>, MaxRepeat)
  /\ Len(processedEdges) = 1
  /\ \A i \in 1..Len(nodes) : nodes[i].occurrences = MaxRepeat

\* C3: a line `(p a1 ... an)` of atoms yields, for n >= 2, exactly one
\* Triple with predicate p, scalar subject a1, isHypergraph false and object
\* a2 as a scalar when n = 2 or the array [a2..an] when n >= 3; for n = 1
\* it yields no triple.
C3_FlatFactTriple ==
  \A p \in FactPredicates, args \in ArgLists :
    mettaText = FlatFact(p, args)
      => triples =
           IF Len(args) >= 2
           THEN << [predicate |-> p,
                    subject |-> [isArray |-> FALSE, items |-> <<args[1]>>],
                    object |-> IF Len(args) = 2
                               THEN [isArray |-> FALSE, items |-> <<args[2]>>]
                               ELSE [isArray |-> TRUE,
                                     items |-> [i \in 1..(Len(args) - 1) |->
                                                  args[i + 1]]],
                    isHypergraph |-> FALSE] >>
           ELSE <<>>

C3_Witness ==
  /\ mettaText = FlatFact(<<"p">>, << <<"a">>, <<"b">> >>)
  /\ Len(triples) = 1
  /\ ~triples[1].object.isArray

\* the graph the claim C4 describes for `(p s (q x y))`
NestedFactGraph(s, q, x, y) ==
  LET generated == { i \in 1..Len(nodes) : nodes[i].isGenerated }
      entities == { i \in 1..Len(nodes) : ~nodes[i].isGenerated }
  IN  /\ Len(hypergraphs) = 1
      /\ hypergraphs[1].subjects = <<s>>
      /\ hypergraphs[1].objects = <<q, x, y>>
      /\ Cardinality(entities) = 4
      /\ \A l \in {s, q, x, y} : \E i \in entities : nodes[i].label = l
      /\ Cardinality(generated) = 1
      /\ \A i \in generated :
           /\ nodes[i].type = "hypergraph"
           /\ nodes[i].id = hypergraphs[1].intermediateNodeId
      /\ Len(processedEdges) = 4
      /\ \A j \in 1..4 :
           /\ processedEdges[j].type = "hypergraph_connection"
           /\ ~processedEdges[j].directed
           /\ processedEdges[j].target = hypergraphs[1].intermediateNodeId
      /\ \A l \in {s, q, x, y} :
           \E j \in 1..4 : processedEdges[j].source = generateNodeId(l)

\* C4 as stated: for `(p s (q x y))` with pairwise distinct labels there is
\* one HypergraphStructure with subjects [s] and objects [q, x, y], four
\* non-generated nodes, one intermediate node of type hypergraph and four
\* undirected hypergraph_connection edges to it.
C4_DistinctLabels ==
  \A s \in FactLabels, q \in FactLabels, x \in FactLabels, y \in FactLabels :
    (mettaText = NestedFact(<<"p">>, s, q, x, y)
       /\ Cardinality({s, q, x, y}) = 4)
      => NestedFactGraph(s, q, x, y)

\* C4 amended: the same for `(p s (q x y))` whose four labels have pairwise
\* distinct node ids.
C4_DistinctNodeIds ==
  \A s \in FactLabels, q \in FactLabels, x \in FactLabels, y \in FactLabels :
    (mettaText = NestedFact(<<"p">>, s, q, x, y)
       /\ Cardinality({generateNodeId(s), generateNodeId(q),
                       generateNodeId(x), generateNodeId(y)}) = 4)
      => NestedFactGraph(s, q, x, y)

C4_Witness ==
  /\ mettaText = NestedFact(<<"p">>, <<"A">>, <<"b">>, <<"c">>, <<"a","-","b">>)
  /\ Len(processedEdges) = 4
  /\ Len(nodes) = 5

\* the lines of the text, and whether line i (1-based) got an error
TextLines == splitLines(mettaText)

LineHasError(i) ==
  \E e \in 1..Len(errors) : errors[e].severity = "error" /\ errors[e].line = i

\* the triples of the lines for which no error is reported, in order
RECURSIVE triplesOfValidLines(_)
triplesOfValidLines(i) ==
  IF i > Len(TextLines) THEN <<>>
  ELSE (IF LineHasError(i) THEN <<>> ELSE lineTriples(TextLines[i]))
         \o triplesOfValidLines(i + 1)

\* C5: a line for which validateSyntax reports an error produces no Triple,
\* while the other lines still produce theirs.
C5_ErrorLineGivesNoTriple ==
  mettaText # <<>> => triples = triplesOfValidLines(1)

\* the 1-based position at which the parenthesis count of line, scanned from
\* position j with the given count, first returns to zero; 0 when it never does
RECURSIVE closingOfFirst(_, _, _)
closingOfFirst(line, j, count) ==
  IF j > Len(line) THEN 0
  ELSE LET c == IF line[j] = "(" THEN count + 1
                ELSE IF line[j] = ")" THEN count - 1 ELSE count
       IN  IF c = 0 THEN j ELSE closingOfFirst(line, j + 1, c)

\* line is wrapped in a single balanced outer pair of parentheses
Wrapped(line) ==
  /\ charAt(line, 0) = "("
  /\ charAt(line, Len(line) - 1) = ")"
  /\ closingOfFirst(line, 1, 0) = Len(line)

\* C6: parseExpression returns no result, and the line yields no triple,
\* for every trimmed line that is not wrapped in a single balanced outer
\* pair of parentheses.
C6_UnwrappedLineFails ==
  \A i \in 1..Len(TextLines) :
    ~Wrapped(trim(TextLines[i]))
      => /\ parseExpression(trim(TextLines[i])).isNull
         /\ lineTriples(TextLines[i]) = <<>>

\* parentheses of line are balanced: the count never drops below zero and
\* ends at zero
Balanced(line) ==
  LET scan == parenScan(line, 0, 0, -1)
  IN  scan.brokeAt = -1 /\ scan.parenCount = 0

\* C7: for a non-blank, non-comment line that starts with `(` and has
\* balanced parentheses, of any length, whose text between the outer
\* parentheses splits on white space into fewer than 2 parts, validateSyntax
\* reports 'Expression must have at least a predicate and one argument'.
C7_TooFewPartsReported ==
  \A i \in 1..Len(TextLines) :
    LET line == trim(TextLines[i]) IN
    ( /\ line # <<>>
      /\ charAt(line, 0) = "("
      /\ Balanced(line)
      /\ Len(splitWhitespace(trim(slice(line, 1, Len(line) - 1)))) < 2 )
      => \E e \in 1..Len(errors) :
           /\ errors[e].line = i
           /\ errors[e].message =
                "Expression must have at least a predicate and one argument"

\* C8: in the returned GraphData no two edges have the same id, and the id
\* of every edge is `<label>-<source>-<target>` of that edge.
C8_EdgeIdsUnique ==
  /\ \A i \in 1..Len(processedEdges), j \in 1..Len(processedEdges) :
       processedEdges[i].id = processedEdges[j].id => i = j
  /\ \A i \in 1..Len(processedEdges) :
       processedEdges[i].id =
         processedEdges[i].label \o <<"-">> \o processedEdges[i].source
           \o <<"-">> \o processedEdges[i].target

C8_Witness ==
  /\ Len(triples) = 2
  /\ triples[1] = triples[2]
  /\ ~triples[1].isHypergraph
  /\ triples[1].subject.isArray
  /\ triples[1].object.isArray
  /\ Len(processedEdges) >= 2

\* C9: detectBidirectionalRelationships returns exactly the edges it was
\* given, in the same order: no edge is dropped.
C9_NoEdgeDropped == processedEdges = edges

\* C10: there is one HypergraphStructure per hypergraph triple; for each,
\* exactly one node has the id intermediateNodeId, it has type hypergraph,
\* and an undirected hypergraph_connection edge leads to it from the node of
\* every subject and every object.
C10_IntermediateNodePerRecord ==
  /\ Len(hypergraphs) = hypergraphTriples(triples)
  /\ \A h \in 1..Len(hypergraphs) :
       LET id == hypergraphs[h].intermediateNodeId IN
       /\ Cardinality(NodesWithId(id)) = 1
       /\ \A i \in NodesWithId(id) : nodes[i].type = "hypergraph"
       /\ \A l \in Range(hypergraphs[h].subjects)
                     \cup Range(hypergraphs[h].objects) :
            \E e \in 1..Len(processedEdges) :
              /\ processedEdges[e].type = "hypergraph_connection"
              /\ ~processedEdges[e].directed
              /\ processedEdges[e].source = generateNodeId(l)
              /\ processedEdges[e].target = id

\* the labels a sequence of triples mentions as subject or object, in order
RECURSIVE mentionsOf(_)
mentionsOf(ts) ==
  IF ts = <<>> THEN <<>>
  ELSE asArray(Head(ts).subject) \o asArray(Head(ts).object)
         \o mentionsOf(Tail(ts))

\* C11: after a transform every mentioned label resolves to a node, no two
\* non-generated nodes share an id (equal labels resolve to the same node),
\* and the occurrences of each non-generated node is the number of subject
\* and object mentions, over all triples, whose label maps to the node's id.
C11_OccurrencesCountMentions ==
  LET m == mentionsOf(triples) IN
  /\ \A k \in 1..Len(m) : NodesWithId(generateNodeId(m[k])) # {}
  /\ \A i \in 1..Len(nodes) :
       ~nodes[i].isGenerated =>
         /\ \A j \in NodesWithId(nodes[i].id) : nodes[j].isGenerated \/ j = i
         /\ nodes[i].occurrences =
              Cardinality({ k \in 1..Len(m) :
                              generateNodeId(m[k]) = nodes[i].id })

\* a label is mentioned by a simple triple and by a hypergraph triple, three
\* times or more in all
C11_Witness ==
  /\ Len(triples) = 2
  /\ triples[1].isHypergraph # triples[2].isHypergraph
  /\ \E i \in 1..Len(nodes) :
       /\ ~nodes[i].isGenerated
       /\ nodes[i].occurrences >= 3
       /\ nodes[i].label \in Range(asArray(triples[1].subject))
                               \cup Range(asArray(triples[1].object))
       /\ nodes[i].label \in Range(asArray(triples[2].subject))
                               \cup Range(asArray(triples[2].object))

\* C19: for every simple triple and every pair of one of its subjects and
\* one of its objects, the returned edges hold a directed relation edge with
\* the triple's predicate as label, from the subject's node id to the
\* object's node id.
C19_RelationEdgePerPair ==
  \A t \in 1..Len(triples) :
    ~triples[t].isHypergraph =>
      \A s \in Range(asArray(triples[t].subject)),
         o \in Range(asArray(triples[t].object)) :
        \E e \in 1..Len(processedEdges) :
          /\ processedEdges[e].type = "relation"
          /\ processedEdges[e].directed
          /\ processedEdges[e].label = triples[t].predicate
          /\ processedEdges[e].source = generateNodeId(s)
          /\ processedEdges[e].target = generateNodeId(o)

\* the predicate of the first triple that mentions a label with the given id
RECURSIVE firstPredicateOf(_, _)
firstPredicateOf(id, ts) ==
  IF ts = <<>> THEN <<>>
  ELSE IF \E l \in Range(mentionsOf(<<Head(ts)>>)) : generateNodeId(l) = id
       THEN Head(ts).predicate
       ELSE firstPredicateOf(id, Tail(ts))

\* C20: the type of every non-generated node is the one inferred from its
\* label and the predicate of the first triple that touches it; later
\* mentions under other predicates leave it alone.
C20_TypeInferredOnce ==
  \A i \in 1..Len(nodes) :
    ~nodes[i].isGenerated =>
      nodes[i].type =
        determineNodeType(nodes[i].label,
                          firstPredicateOf(nodes[i].id, triples))

\* ------------------------------------------------------------------------
\* Properties of the layout engine
\* ------------------------------------------------------------------------
\* C12: at most one animate callback is pending, it is the one the engine
\* holds the handle of, and its targets are those of the latest applyLayout:
\* no tick can move a node toward the targets of an earlier layout.
C12_OneAnimation ==
  /\ Cardinality(frames) <= 1
  /\ \A f \in frames :
       /\ f.id = graphEngine.animationFrameId
       /\ f.targetPositions = Len(maps)
       /\ f.targetPositions = graphEngine.targetPositions

\* a second applyLayout has replaced a layout whose callback was pending
C12_Witness ==
  /\ lastCall.op = "applyLayout"
  /\ lastCall.result # 0
  /\ Len(maps) = 3
  /\ frames # {}
  /\ maps[graphEngine.targetPositions] # EmptyMap

\* C13: a stopLayout call leaves every node where it was, isAnimating false
\* and no callback pending; and whenever isAnimating is false no callback is
\* pending, so no tick moves a node before the next applyLayout.
C13_StopFreezes ==
  /\ [](~graphEngine.layoutState.isAnimating => frames = {})
  /\ [][ lastCall'.op = "stopLayout"
           => /\ graphEngine'.nodes = graphEngine.nodes
              /\ ~graphEngine'.layoutState.isAnimating
              /\ frames' = {} ]_vars

\* stopLayout has cancelled the callback of an animation half way
C13_Witness ==
  /\ lastCall.op = "stopLayout"
  /\ lastCall.result # 0
  /\ graphEngine.layoutState.progress = Rat(1, 2)
  /\ \E i \in 1..Len(graphEngine.nodes) : graphEngine.nodes[i].position.x.d # 1

\* the centre of a sequence of points
centroid(points) ==
  Point(over(sumX(points), Num(Len(points))),
        over(sumY(points), Num(Len(points))))

\* C14: after applyLayout on a non-empty graph the centroid of the target
\* positions is the centroid of the nodes' positions at the call (which the
\* call leaves in place).
C14_CentroidPreserved ==
  (lastCall.op = "applyLayout" /\ graphEngine.nodes # <<>>)
    => centroid(mapValues(maps[graphEngine.targetPositions]))
         = centroid(nodePositions(graphEngine.nodes))

\* the ids reachable from the roots along at most k edges source -> target
RECURSIVE reachable(_, _, _)
reachable(roots, es, k) ==
  IF k = 0 THEN roots
  ELSE LET near == reachable(roots, es, k - 1) IN
       near \cup { es[i].target : i \in { j \in 1..Len(es) : es[j].source \in near } }

\* the shortest directed distance from the nearest root, 0 when unreachable
distanceFrom(roots, es, id) ==
  IF id \in reachable(roots, es, Len(es))
  THEN CHOOSE k \in 0..Len(es) :
         /\ id \in reachable(roots, es, k)
         /\ \A j \in 0..(k - 1) : id \notin reachable(roots, es, j)
  ELSE 0

HierarchicalApplied ==
  /\ lastCall.op = "applyLayout"
  /\ graphEngine.layoutState.algorithm = "hierarchical"
  /\ graphEngine.nodes # <<>>

\* C15: the levels of the hierarchical layout are the shortest distances
\* from the roots, which are the nodes of in-degree 0 or, when there is none,
\* one node of maximum out-degree; unreached nodes have level 0.
C15_LevelsAreDistances ==
  HierarchicalApplied =>
    LET ns == graphEngine.nodes
        es == graphEngine.edges
        ids == { ns[i].id : i \in 1..Len(ns) }
        zero == { id \in ids : inDegree(es, id) = 0 }
        most == { id \in ids :
                    \A other \in ids : outDegree(es, other) <= outDegree(es, id) }
        levels == hierarchicalLevels(ns, es)
    IN  \E roots \in (IF zero # {} THEN {zero} ELSE { {r} : r \in most }) :
          \A id \in ids : MapGet(levels, id) = distanceFrom(roots, es, id)

\* C16: in the hierarchical targets the y of two nodes differs by 170 times
\* the difference of their levels (the same y inside a level), and the nodes
\* of a level stand at distinct x, 120 apart.
C16_LevelSpacing ==
  HierarchicalApplied =>
    LET ns == graphEngine.nodes
        levels == hierarchicalLevels(ns, graphEngine.edges)
        target(i) == MapGet(maps[graphEngine.targetPositions], ns[i].id)
        level(i) == MapGet(levels, ns[i].id)
        sameLevel(i) == { j \in 1..Len(ns) : level(j) = level(i) }
        leftOf(i) == { j \in sameLevel(i) : less(target(j).x, target(i).x) }
    IN  /\ \A i \in 1..Len(ns), j \in 1..Len(ns) :
             minus(target(j).y, target(i).y)
               = Num(levelHeight * (level(j) - level(i)))
        /\ \A i \in 1..Len(ns) :
             /\ \A j \in sameLevel(i) : j # i => target(j).x # target(i).x
             /\ \E first \in sameLevel(i) :
                  /\ leftOf(first) = {}
                  /\ minus(target(i).x, target(first).x)
                       = Num(nodeWidth * Cardinality(leftOf(i)))

\* C17: getNodeAtPosition returns null when no node is within the radius of
\* the converted position, and otherwise a node within the radius that no
\* other node is nearer than.
C17_NearestNodeHit ==
  lastCall.op = "getNodeAtPosition" =>
    LET ns == graphEngine.nodes
        worldPos == screenToWorld(lastCall.args[1], lastCall.args[2])
        near == { i \in 1..Len(ns) : withinRadius(ns[i], worldPos) }
    IN  IF near = {} THEN lastCall.result = 0
        ELSE /\ lastCall.result \in near
             /\ \A j \in near :
                  lessEq(squaredDistance(ns[lastCall.result], worldPos),
                         squaredDistance(ns[j], worldPos))

\* C18: a handleNodeDrag call puts one node with the id at the position and
\* changes nothing else, animation running or not; with an unknown id it
\* changes nothing.
C18_DragMovesOneNode ==
  [][ lastCall'.op = "handleNodeDrag"
        => LET ns == graphEngine.nodes
               matching == { i \in 1..Len(ns) : ns[i].id = lastCall'.args[1] }
           IN  /\ matching = {} => graphEngine'.nodes = ns
               /\ matching # {} =>
                    \E i \in matching :
                      graphEngine'.nodes =
                        [ns EXCEPT ![i].position = lastCall'.args[2]]
               /\ graphEngine'.edges = graphEngine.edges
               /\ graphEngine'.layoutState = graphEngine.layoutState
               /\ graphEngine'.animationFrameId = graphEngine.animationFrameId
               /\ graphEngine'.targetPositions = graphEngine.targetPositions
               /\ maps' = maps
               /\ frames' = frames ]_vars

\* a node was dragged while the animation was half way
C18_Witness ==
  /\ lastCall.op = "handleNodeDrag"
  /\ graphEngine.layoutState.isAnimating
  /\ graphEngine.layoutState.progress = Rat(1, 2)
  /\ frames # {}
  /\ \E i \in 1..Len(graphEngine.nodes) :
       /\ graphEngine.nodes[i].id = lastCall.args[1]
       /\ graphEngine.nodes[i].position = lastCall.args[2]

\* ------------------------------------------------------------------------
\* Properties of the validator's parenthesis scan
\* ------------------------------------------------------------------------
\* the 1-based position of the first `)` that takes the running count of
\* line, scanned from position j with the given count, below zero; 0: none
RECURSIVE firstNegative(_, _, _)
firstNegative(line, j, count) ==
  IF j > Len(line) THEN 0
  ELSE IF line[j] = "(" THEN firstNegative(line, j + 1, count + 1)
  ELSE IF line[j] = ")"
       THEN IF count = 0 THEN j ELSE firstNegative(line, j + 1, count - 1)
       ELSE firstNegative(line, j + 1, count)

\* the number of positions of line that hold the character c
occurrencesOf(line, c) == Cardinality({ j \in 1..Len(line) : line[j] = c })

\* the positions of the `(` of line that no `)` matches
unmatchedOpens(line) ==
  { j \in 1..Len(line) : line[j] = "(" /\ closingOfFirst(line, j, 0) = 0 }

\* the diagnostics reported for line i (1-based), in order
RECURSIVE diagnosticsOfLine(_, _)
diagnosticsOfLine(es, i) ==
  IF es = <<>> THEN <<>>
  ELSE (IF Head(es).line = i THEN <<Head(es)>> ELSE <<>>)
         \o diagnosticsOfLine(Tail(es), i)

\* C21: for a line starting with `(`, a `)` that drives the running count
\* below zero gives exactly one error, 'Unmatched closing parenthesis' at the
\* 1-based column of that character; a scan that ends with the count above
\* zero gives exactly one error, 'Unmatched opening parenthesis', at the
\* column of the last `(` of the line that has no matching `)`.
C21_UnmatchedParenthesisColumn ==
  \A i \in 1..Len(TextLines) :
    LET line == trim(TextLines[i])
        closing == firstNegative(line, 1, 0)
    IN
    (line # <<>> /\ charAt(line, 0) = "(")
      => /\ closing # 0
              => diagnosticsOfLine(errors, i) =
                   << ParseError(i, closing, "Unmatched closing parenthesis",
                                 "error", <<>>, <<>>) >>
         /\ ( /\ closing = 0
              /\ occurrencesOf(line, "(") > occurrencesOf(line, ")") )
              => \E column \in unmatchedOpens(line) :
                   /\ \A j \in unmatchedOpens(line) : j <= column
                   /\ diagnosticsOfLine(errors, i) =
                        << ParseError(i, column,
                                      "Unmatched opening parenthesis",
                                      "error", <<>>, <<>>) >>

\* the diagnostics of the lines i .. of the text, each line validated alone
\* as a one-line text and its diagnostics given the line number i
RECURSIVE diagnosticsAlone(_, _)
diagnosticsAlone(i, field) ==
  IF i > Len(TextLines) THEN <<>>
  ELSE LET alone == validateSyntax(TextLines[i])[field]
       IN  [e \in 1..Len(alone) |-> [alone[e] EXCEPT !.line = i]]
             \o diagnosticsAlone(i + 1, field)

\* C22: validateSyntax is line-local: the errors and the warnings of a text
\* are the diagnostics of each line validated alone, with the line number
\* set to that of the line; blank lines and lines whose first non-space
\* character is `;` yield none, and each line yields at most one diagnostic.
C22_ValidationLineLocal ==
  /\ errors = diagnosticsAlone(1, "errors") \o diagnosticsAlone(1, "warnings")
  /\ \A i \in 1..Len(TextLines) :
       /\ Len(diagnosticsOfLine(errors, i)) <= 1
       /\ (trim(TextLines[i]) = <<>> \/ charAt(trim(TextLines[i]), 0) = ";")
            => diagnosticsOfLine(errors, i) = <<>>

\* a warning for the first line and an error for the second: the error
\* comes first in the result, and each carries the number of its line
C22_Witness ==
  /\ Len(TextLines) = 2
  /\ Len(errors) = 2
  /\ errors[1].severity = "error" /\ errors[1].line = 2
  /\ errors[2].severity = "warning" /\ errors[2].line = 1

\* ------------------------------------------------------------------------
\* Properties of the predicate warning
\* ------------------------------------------------------------------------
\* b results from a by one insertion, deletion or substitution
oneEditApart(a, b) ==
  \/ /\ Len(a) = Len(b)
     /\ Cardinality({ k \in 1..Len(a) : a[k] # b[k] }) = 1
  \/ /\ Len(a) = Len(b) + 1
     /\ \E k \in 1..Len(a) : removeAt(a, k) = b
  \/ /\ Len(b) = Len(a) + 1
     /\ \E k \in 1..Len(b) : removeAt(b, k) = a

\* the strings of at most maxLen letters within k edits of a string of S
RECURSIVE withinEdits(_, _, _)
withinEdits(S, k, maxLen) ==
  IF k = 0 THEN S
  ELSE withinEdits(
         S \cup { t \in UNION { editsOf(s, c) : s \in S, c \in WordLetters } :
                    Len(t) <= maxLen },
         k - 1, maxLen)

\* the least number of edits that turn a into b
editDistance(a, b) ==
  CHOOSE k \in 0..(Len(a) + Len(b)) :
    /\ b \in withinEdits({a}, k, Len(a) + Len(b))
    /\ \A h \in 0..(k - 1) : b \notin withinEdits({a}, h, Len(a) + Len(b))

\* the dictionary entries one edit away from the lower-cased predicate
nearEntries(p) ==
  { j \in 1..Len(commonPredicates) :
      oneEditApart(toLowerCase(p), commonPredicates[j]) }

\* C23: a structurally valid line with at least 2 parts gets a 'Did you
\* mean X?' warning, and no error, exactly when its lower-cased first token
\* is one edit away from a dictionary entry X, and no diagnostic when it
\* equals an entry or is two or more edits away from every entry; and
\* levenshteinDistance returns the least number of insertions, deletions and
\* substitutions that turn one string into the other.
C23_WarningAtDistanceOne ==
  /\ \A p \in PredicateSamples, args \in PredicateArgs :
       mettaText = FlatFact(p, args)
         => IF nearEntries(p) = {}
            THEN errors = <<>>
            ELSE /\ Len(errors) = 1
                 /\ errors[1].severity = "warning"
                 /\ errors[1].message = "Did you mean"
                 /\ errors[1].line = 1
                 /\ errors[1].found = p
                 /\ \E j \in nearEntries(p) :
                      errors[1].similar = commonPredicates[j]
  /\ lastCall.op = "levenshteinDistance"
       => lastCall.result = editDistance(lastCall.args[1], lastCall.args[2])

\* `Ame` is one substitution from `age` and one insertion from `name`: the
\* warning names an entry one edit from the lower-cased token
C23_Witness ==
  /\ mettaText = FlatFact(<<"a","m","e">>, << <<"a">>, <<"b">> >>)
  /\ Len(errors) = 1
  /\ errors[1].severity = "warning"
  /\ errors[1].similar = <<"a","g","e">>

\* levenshteinDistance was applied to two strings that a substitution and an
\* insertion tell apart
C23_WitnessDistance ==
  /\ lastCall.op = "levenshteinDistance"
  /\ lastCall.args = << <<"a","b">>, <<"b","b","a">> >>
  /\ lastCall.result = 2

\* ------------------------------------------------------------------------
\* Properties of a whole animation
\* ------------------------------------------------------------------------
\* the animation has ended in the callback just run, and every node of the
\* engine that has a target is at its target
EndedAtTargets ==
  /\ lastCall.op = "animate"
  /\ ~graphEngine.layoutState.isAnimating
  /\ graphEngine.layoutState.progress = Num(1)
  /\ frames = {}
  /\ graphEngine.animationFrameId = 0
  /\ \A i \in 1..Len(graphEngine.nodes) :
       MapHas(lastCall.args[3], graphEngine.nodes[i].id)
         => graphEngine.nodes[i].position =
              MapGet(lastCall.args[3], graphEngine.nodes[i].id)

\* C24: after applyLayout on a non-empty node set with a positive duration,
\* when ticks keep coming with timestamps that reach startTime + duration and
\* neither stopLayout nor applyLayout is called, the animation ends:
\* isAnimating is false, progress is 1, no tick is scheduled and every node
\* that had a target is exactly at its target, dragged nodes included.
C24_AnimationEndsAtTargets ==
  (lastCall.op = "applyLayout" /\ graphEngine.layoutState.isAnimating)
    ~> EndedAtTargets

\* ------------------------------------------------------------------------
\* Properties of the engine's effects on node positions
\* ------------------------------------------------------------------------
\* C25: applyLayout computes its targets on a private copy: when it returns,
\* every node is where it was before the call, for each of the three
\* algorithms; the nodes change only in a tick, in handleNodeDrag, and when
\* setData replaces them by the nodes it is given.
C25_ApplyLayoutLeavesNodes ==
  [][ /\ lastCall'.op = "applyLayout"
        => /\ graphEngine'.nodes = graphEngine.nodes
           /\ lastCall'.args[1] \in LayoutAlgorithms
      /\ lastCall'.op \notin {"animate", "handleNodeDrag", "setData"}
        => graphEngine'.nodes = graphEngine.nodes
      /\ lastCall'.op = "setData"
        => \E graph \in SampleGraphs : graphEngine'.nodes = graph.nodes ]_vars

\* applyLayout has returned with targets that move a node, and no tick has
\* run since: the node is still where it was
C25_Witness ==
  /\ lastCall.op = "applyLayout"
  /\ lastCall.args[1] = "force-directed"
  /\ graphEngine.layoutState.isAnimating
  /\ graphEngine.layoutState.progress = Num(0)
  /\ \E i \in 1..Len(graphEngine.nodes) :
       /\ MapHas(maps[graphEngine.targetPositions], graphEngine.nodes[i].id)
       /\ MapGet(maps[graphEngine.targetPositions], graphEngine.nodes[i].id)
            # graphEngine.nodes[i].position

\* C26: the progress getLayoutState returns lies within [0, 1] in every state
\* setData, applyLayout, stopLayout, handleNodeDrag and ticks lead to; a tick
\* never lowers it (the timestamps do not decrease); and it is exactly 1 when
\* a tick has ended the animation.
C26_ProgressWithinUnit ==
  [][ /\ lessEq(Num(0), getLayoutState(graphEngine').progress)
      /\ lessEq(getLayoutState(graphEngine').progress, Num(1))
      /\ lastCall'.op = "animate" =>
            /\ lessEq(getLayoutState(graphEngine).progress,
                      getLayoutState(graphEngine').progress)
            /\ ~getLayoutState(graphEngine').isAnimating =>
                  getLayoutState(graphEngine').progress = Num(1) ]_vars

\* a tick has ended an animation of duration 0 at the timestamp it started at
C26_Witness ==
  /\ lastCall.op = "animate"
  /\ ~graphEngine.layoutState.isAnimating
  /\ graphEngine.layoutState.progress = Num(1)
  /\ \E i \in DOMAIN graphEngine.nodes : isNaN(graphEngine.nodes[i].position.x)

\* a tick has left an animation half way
C26_WitnessHalfWay ==
  /\ lastCall.op = "animate"
  /\ graphEngine.layoutState.isAnimating
  /\ graphEngine.layoutState.progress = over(Num(1), Num(2))

\* C27: every non-blank, non-comment line for which validateSyntax reports no
\* error yields exactly one Triple in extractTriples.
C27_ValidLineOneTriple ==
  \A i \in 1..Len(TextLines) :
    ( /\ trim(TextLines[i]) # <<>>
      /\ charAt(trim(TextLines[i]), 0) # ";"
      /\ ~LineHasError(i) )
      => Len(lineTriples(TextLines[i])) = 1

\* C28: in every returned GraphData the node ids are pairwise distinct, the
\* nodes made from labels and the intermediate hypergraph nodes included, and
\* no intermediate node has the id of an intermediate node of the GraphData
\* returned before it by the same instance.
C28_NodeIdsDistinct ==
  [][ /\ \A i \in 1..Len(nodes'), j \in 1..Len(nodes') :
           nodes'[i].id = nodes'[j].id => i = j
      /\ \A i \in 1..Len(nodes'), j \in 1..Len(nodes) :
           (nodes'[i].isGenerated /\ nodes[j].isGenerated)
             => nodes'[i].id # nodes[j].id ]_vars

\* C29: isAnimating is true exactly when one tick callback is scheduled, and
\* then animationFrameId is its handle; otherwise no callback is scheduled
\* and animationFrameId is null. It is false at first, after a tick has ended
\* the animation, after stopLayout, and after applyLayout on an empty node
\* set.
C29_AnimatingIffScheduled ==
  /\ graphEngine.layoutState.isAnimating
       <=> (\E f \in frames : frames = {f} /\ graphEngine.animationFrameId = f.id)
  /\ ~graphEngine.layoutState.isAnimating
       <=> (frames = {} /\ graphEngine.animationFrameId = 0)
  /\ lastCall.op \in {"new", "stopLayout"}
       => ~graphEngine.layoutState.isAnimating
  /\ (lastCall.op = "applyLayout" /\ graphEngine.nodes = <<>>)
       => ~graphEngine.layoutState.isAnimating
  /\ (lastCall.op = "animate" /\ graphEngine.animationFrameId = 0)
       => ~graphEngine.layoutState.isAnimating

\* applyLayout has been called on an emptied graph while an animation ran
C29_Witness ==
  /\ lastCall.op = "applyLayout"
  /\ lastCall.result # 0
  /\ graphEngine.nodes = <<>>
  /\ ~graphEngine.layoutState.isAnimating
  /\ frames = {}

\* C30: in every returned GraphData the source and the target of every edge
\* are ids of returned nodes, and the node that the target of a
\* hypergraph_connection edge names (the one nodes.find gives for the id) has
\* type hypergraph.
C30_EdgesReferToNodes ==
  \A e \in 1..Len(processedEdges) :
    /\ NodesWithId(processedEdges[e].source) # {}
    /\ NodesWithId(processedEdges[e].target) # {}
    /\ processedEdges[e].type = "hypergraph_connection"
         => nodes[findNode(nodes, processedEdges[e].target, 1)].type
              = "hypergraph"

====
